---- MODULE Spec2Model ----
(***************************************************************************)
(* Model of the right-hand-side evaluator of the L'Heureux early-diagenesis *)
(* system (LMAHeureuxPorosityDiffV2.py): the two variants of the RHS (fun   *)
(* and fun_numba/pde_rhs), the Fiadeiro-Veronis weight (calculate_sigma),   *)
(* the Jacobian sparsity pattern, the event predicates and the progress     *)
(* bookkeeping.                                                             *)
(*                                                                         *)
(* Numbers.  A float is modelled by an exact rational <<n, d>> in lowest    *)
(* terms with d > 0.  The two RHS variants differ only in the order of      *)
(* commutative products and in where a factor 2 is applied, which IEEE      *)
(* arithmetic also computes exactly, so exact arithmetic keeps what the     *)
(* two variants can disagree on.  A value with d = 0 is no number: Err is   *)
(* the outcome of a floating-point operation that np.seterr turns into a    *)
(* raised FloatingPointError (a ZeroDivisionError in compiled code), and    *)
(* Uninit is an entry of an np.empty array that was never assigned.         *)
(* Library functions (np.exp, np.log, np.cosh/np.sinh, np.sqrt) are         *)
(* tabulated at the arguments the model reaches, rounded to 1/4.            *)
(*                                                                         *)
(* Specifications.  Spec: the solver evaluates fun, fun_numba and jac on    *)
(* the state vectors it steps through.  SpecEvents: it evaluates the seven  *)
(* event functions and jacobian_sparsity.  SpecSigma: the sigma code is     *)
(* called on its own, on Peclet numbers around its two thresholds.          *)
(* SpecSolve: solve_ivp steps the state vector and follows the events.      *)
(* SpecLoop: pde_rhs runs its loop over the cells part by part, the cells   *)
(* in any order.  SpecProgress: the calls of one integration for each       *)
(* progress_dt and t0, on the progress bookkeeping.                         *)
(***************************************************************************)
EXTENDS Integers, Sequences, FiniteSets, TLC

VARIABLES
    cfg,      \* the parameter set the model object was constructed with
    y,        \* the state vector the solver holds
    steps,    \* number of solver steps taken so far
    last_t,   \* self.last_t
    pbar,     \* progress_proxy.n, the sum of the updates of the progress bar
    args,     \* the args of solve_ivp: progress_dt and t0 (of a call of the
              \* sigma code on its own: the arguments of that call)
    op,       \* the function of the model object that returned last, or
              \* "idle" when the solver holds no result
    out,      \* what it returned
    locals,   \* the per-cell local values of that evaluation
    sol,      \* what solve_ivp keeps of the integration: its status and
              \* the events it has recorded
    prev      \* history: the state vector and the result of the call of
              \* fun or fun_numba that the solver took last on this y

vars == <<cfg, y, steps, last_t, pbar, args, op, out, locals, sol, prev>>

----------------------------------------------------------------------------
(* Evaluation order.  An array expression of the code is evaluated once    *)
(* and its value is used from then on; Let and the Strict operators give   *)
(* the model's operators the same order.                                   *)

\* Body(v) for the value v of e
Let(e, Body(_)) == CHOOSE r \in {Body(v) : v \in {e}} : TRUE

\* Op applied to the values of its arguments
Strict1(Op(_), e) == CHOOSE r \in {Op(u) : u \in {e}} : TRUE
Strict2(Op(_, _), e1, e2) == CHOOSE r \in {Op(u, v) : u \in {e1}, v \in {e2}} : TRUE

----------------------------------------------------------------------------
(* Rational arithmetic.                                                    *)

Err == <<0, 0>>
Uninit == <<1, 0>>

IsNum(a) == a[2] # 0

Abs(n) == IF n < 0 THEN -n ELSE n

GCD[p \in Nat, q \in Nat] == IF q = 0 THEN p ELSE GCD[q, p % q]

RNormV(n, d) ==
    IF d = 0 THEN Err
    ELSE IF d < 0 THEN <<(-n) \div GCD[Abs(n), Abs(d)], (-d) \div GCD[Abs(n), Abs(d)]>>
    ELSE <<n \div GCD[Abs(n), Abs(d)], d \div GCD[Abs(n), Abs(d)]>>

RNorm(n, d) == Strict2(RNormV, n, d)

R(n, d) == RNorm(n, d)

Zero == <<0, 1>>
One == <<1, 1>>
Two == <<2, 1>>
Half == <<1, 2>>
Ten == <<10, 1>>

RNegV(a) == IF IsNum(a) THEN <<-a[1], a[2]>> ELSE Err

RNeg(a) == Strict1(RNegV, a)

\* a + x over the least common denominator, c the gcd of the denominators
RAddOver(a, x, c) ==
    RNorm(a[1] * (x[2] \div c) + x[1] * (a[2] \div c), a[2] * (x[2] \div c))

RAddV(a, x) ==
    IF ~IsNum(a) \/ ~IsNum(x) THEN Err
    ELSE IF a[2] = x[2] THEN RNorm(a[1] + x[1], a[2])
    ELSE RAddOver(a, x, GCD[a[2], x[2]])

RAdd(a, x) == Strict2(RAddV, a, x)

RSub(a, x) == RAdd(a, RNeg(x))

\* a * x with the common factors c1 of a[1], x[2] and c2 of x[1], a[2]
\* cancelled first
RMulOver(a, x, c1, c2) ==
    <<(a[1] \div c1) * (x[1] \div c2), (a[2] \div c2) * (x[2] \div c1)>>

RMulV(a, x) ==
    IF ~IsNum(a) \/ ~IsNum(x) THEN Err
    ELSE IF a[1] = 0 \/ x[1] = 0 THEN Zero
    ELSE RMulOver(a, x, GCD[Abs(a[1]), x[2]], GCD[Abs(x[1]), a[2]])

RMul(a, x) == Strict2(RMulV, a, x)

\* a / x; a zero divisor is the "divide" (x/0) or "invalid" (0/0) floating
\* point error, both of which are raised.
RDivV(a, x) ==
    IF ~IsNum(a) \/ ~IsNum(x) THEN Err
    ELSE IF x[1] = 0 THEN Err
    ELSE IF x[1] < 0 THEN RMulV(a, <<-x[2], -x[1]>>)
    ELSE RMulV(a, <<x[2], x[1]>>)

RDiv(a, x) == Strict2(RDivV, a, x)

RLtV(a, x) == a[1] * x[2] < x[1] * a[2]
RLeV(a, x) == a[1] * x[2] <= x[1] * a[2]

RLt(a, x) == Strict2(RLtV, a, x)
RLe(a, x) == Strict2(RLeV, a, x)

RAbsV(a) == IF IsNum(a) THEN <<Abs(a[1]), a[2]>> ELSE Err

RAbs(a) == Strict1(RAbsV, a)

\* np.sign
RSignV(a) ==
    IF ~IsNum(a) THEN Err
    ELSE IF a[1] > 0 THEN One ELSE IF a[1] < 0 THEN <<-1, 1>> ELSE Zero

RSign(a) == Strict1(RSignV, a)

\* min and np.fmin, max and np.fmax (they differ on NaN only, which no
\* value of the model is)
RMinV(a, x) == IF ~IsNum(a) \/ ~IsNum(x) THEN Err ELSE IF RLtV(x, a) THEN x ELSE a
RMaxV(a, x) == IF ~IsNum(a) \/ ~IsNum(x) THEN Err ELSE IF RLtV(a, x) THEN x ELSE a

RMin(a, x) == Strict2(RMinV, a, x)
\* np.fmin written where np.fmax belongs
RMax_as_fmin(a, x) == Strict2(RMinV, a, x)

RMax(a, x) == Strict2(RMaxV, a, x)

\* x ** e for a natural exponent e
RECURSIVE RPowV(_, _)
RPowV(x, e) == IF e = 0 THEN One ELSE RMul(x, RPowV(x, e - 1))

RPow(x, e) == Strict2(RPowV, x, e)

----------------------------------------------------------------------------
(* Library functions, tabulated at the arguments the model reaches and     *)
(* rounded to the nearest 1/4 (np.cosh/np.sinh: to the nearest 1/16).      *)

\* np.exp(x): the code calls it with x = 10 - 10/Phi only.
NpExpV(x) ==
    IF ~IsNum(x) THEN Err
    ELSE CASE x = <<-30, 1>> -> Zero          \* Phi = 1/4: 9.4e-14
           [] x = <<-10, 1>> -> Zero          \* Phi = 1/2: 4.5e-5
           [] x = <<0, 1>>   -> One           \* Phi = 1
           [] x = <<5, 1>>   -> <<297, 2>>    \* Phi = 2: 148.41

NpExp(x) == Strict1(NpExpV, x)

\* np.log(x), called with x = Phi.  log(0) is the "divide" error and the
\* log of a negative number the "invalid" error of np.seterr.
NpLogV(x) ==
    IF ~IsNum(x) \/ x[1] <= 0 THEN Err
    ELSE CASE x = <<1, 4>> -> <<-3, 2>>       \* -1.3863
           [] x = <<1, 2>> -> <<-3, 4>>       \* -0.6931
           [] x = <<1, 1>> -> Zero
           [] x = <<2, 1>> -> <<3, 4>>        \*  0.6931

NpLog(x) == Strict1(NpLogV, x)

\* np.sqrt(x), called with x = KC.
NpSqrt(x) == CASE x = <<1, 4>> -> <<1, 2>>

\* np.cosh(x)/np.sinh(x).  Below 1 the two leading terms of the Laurent
\* series, 1/x + x/3; from 1 on the value at the middle of the bracket.  At
\* x = 0 it is 1/0, the "divide" error.
CoshOverSinhV(x) ==
    IF ~IsNum(x) THEN Err
    ELSE IF RLtV(RAbsV(x), One) THEN RAdd(RDivV(One, x), RDivV(x, <<3, 1>>))
    ELSE IF RLtV(RAbsV(x), <<13, 10>>) THEN RMulV(RSignV(x), <<19, 16>>)
    ELSE IF RLtV(RAbsV(x), <<31, 20>>) THEN RMulV(RSignV(x), <<9, 8>>)
    ELSE IF RLtV(RAbsV(x), <<21, 10>>) THEN RMulV(RSignV(x), <<17, 16>>)
    ELSE RSignV(x)

CoshOverSinh(x) == Strict1(CoshOverSinhV, x)

----------------------------------------------------------------------------
(* Construction: the parameters handed to LMAHeureuxPorosityDiff.__init__  *)
(* (sample values) and the constants __init__ derives from them.           *)

\* number of depth cells, Depths.shape[0]
no_depths == 2

no_fields == 5

Cells == 1..no_depths
Fields == 0..(no_fields - 1)

\* Three parameter sets, which differ in the diffusivities and in the
\* compressibility b: in "A" diffusion and advection balance, "B" is
\* diffusion-dominated and "C" advection-dominated.
Configs == {"A", "B", "C"}

\* grid spacing, Depths._axes_coords[0][1] - Depths._axes_coords[0][0]
delta_x == One

\* cell centres of the uniform grid
Depth(i) == RMul(delta_x, <<2 * i - 1, 2>>)

CA0 == <<1, 2>>
CC0 == <<1, 4>>
cCa0 == <<1, 2>>
cCO30 == <<1, 2>>
Phi0 == <<1, 2>>

\* the bottom value of CA and CC, 1e99 in the source
Sentinel == <<99, 1>>

BCValue(v) == [kind |-> "value", val |-> v]
BCDerivative(v) == [kind |-> "derivative", val |-> v]

bc_CA == <<BCValue(CA0), BCValue(Sentinel)>>
bc_CC == <<BCValue(CC0), BCValue(Sentinel)>>
bc_cCa == <<BCValue(cCa0), BCDerivative(Zero)>>
bc_cCO3 == <<BCValue(cCO30), BCDerivative(Zero)>>
bc_Phi == <<BCValue(Phi0), BCDerivative(Zero)>>

\* the boundary conditions of the five fields, in field order
BCs == <<bc_CA, bc_CC, bc_cCa, bc_cCO3, bc_Phi>>

sedimentationrate == <<1, 10>>
Tstar == One
k1 == One
k2 == Two
k3 == One
k4 == <<3, 1>>
m1 == 2
m2 == 3
n1 == 3
n2 == 2
beta == <<3, 10>>
rhos == <<3, 1>>
rhow == One
rhos0 == <<5, 3>>
KA == <<1, 2>>
KC == <<1, 4>>
muA == <<3, 1>>
D0Ca == One
PhiNR == <<4, 5>>
PhiInfty == <<3, 10>>
b(c) == CASE c = "A" -> <<1, 1635>>
          [] c = "B" -> <<1, 1635000>>
          [] c = "C" -> <<200, 327>>
DCa(c) == CASE c = "A" -> <<5, 8>>
            [] c = "B" -> <<1000, 1>>
            [] c = "C" -> <<1, 1000>>
DCO3(c) == CASE c = "A" -> <<5, 4>>
             [] c = "B" -> <<2000, 1>>
             [] c = "C" -> <<1, 500>>

\* ShallowLimit/Xstar and DeepLimit/Xstar
ShallowLimit == One
DeepLimit == Two

\* heaviside(x, 0): 1 for x > 0, else 0
Heaviside(x) == IF x[1] > 0 THEN One ELSE Zero

\* no upper edge of the band: every cell counts as deep enough
not_too_shallow_everywhere == [i \in Cells |-> One]

not_too_shallow == [i \in Cells |-> Heaviside(RSub(Depth(i), ShallowLimit))]
\* the difference taken the other way round: heaviside(x - DeepLimit, 0)
not_too_deep_reversed == [i \in Cells |-> Heaviside(RSub(Depth(i), DeepLimit))]

not_too_deep == [i \in Cells |-> Heaviside(RSub(DeepLimit, Depth(i)))]

\* the slices in the reverse order of the fields
slices_reversed ==
    [f \in Fields |-> [start |-> (no_fields - 1 - f) * no_depths,
                       stop |-> (no_fields - f) * no_depths]]

slices_for_all_fields ==
    [f \in Fields |-> [start |-> f * no_depths, stop |-> (f + 1) * no_depths]]

CA_sl == slices_for_all_fields[0]
CC_sl == slices_for_all_fields[1]
cCa_sl == slices_for_all_fields[2]
cCO3_sl == slices_for_all_fields[3]
Phi_sl == slices_for_all_fields[4]

nu1 == RDiv(k1, k2)
nu2 == RDiv(k4, k3)
KRat == RDiv(KC, KA)
g == R(100 * 981, 100)
dCa(c) == RDiv(DCa(c), D0Ca)
dCO3(c) == RDiv(DCO3(c), D0Ca)
delta == RDiv(rhos, RMul(muA, NpSqrt(KC)))
Da == RMul(k2, Tstar)
lambda_ == RDiv(k3, k2)
auxcon(c) ==
    RDiv(beta, RMul(RMul(RMul(RMul(D0Ca, b(c)), g), rhow), RSub(PhiNR, PhiInfty)))
rhorat0 == RDiv(RMul(RSub(RDiv(rhos0, rhow), One), beta), sedimentationrate)
rhorat == RDiv(RMul(RSub(RDiv(rhos, rhow), One), beta), sedimentationrate)
presum ==
    RSub(One, RDiv(RMul(RMul(rhorat0, RPow(Phi0, 3)),
                        RSub(One, NpExp(RSub(Ten, RDiv(Ten, Phi0))))),
                   RSub(One, Phi0)))

Peclet_min == <<1, 100>>
Peclet_max == RDiv(One, Peclet_min)

----------------------------------------------------------------------------
(* The grid operators, registered on Depths and applied under a pair of    *)
(* boundary conditions: a fixed value sets the ghost cell to that value, a *)
(* zero derivative mirrors the adjacent interior cell.                     *)

GhostLow(data, bc) == IF bc[1].kind = "value" THEN bc[1].val ELSE data[1]
GhostHigh(data, bc) == IF bc[2].kind = "value" THEN bc[2].val ELSE data[no_depths]

Before(data, bc, i) == IF i = 1 THEN GhostLow(data, bc) ELSE data[i - 1]
After(data, bc, i) == IF i = no_depths THEN GhostHigh(data, bc) ELSE data[i + 1]

\* apply_operator("grad_back", bc)
grad_back(data, bc) ==
    [i \in Cells |-> RDiv(RSub(data[i], Before(data, bc, i)), delta_x)]

\* apply_operator("grad_forw", bc)
grad_forw(data, bc) ==
    [i \in Cells |-> RDiv(RSub(After(data, bc, i), data[i]), delta_x)]

\* laplace(bc)
laplace(data, bc) ==
    [i \in Cells |->
        RDiv(RAdd(RSub(After(data, bc, i), RMul(Two, data[i])), Before(data, bc, i)),
             RMul(delta_x, delta_x))]

\* y[sl]: the entries of y with zero-based index in [sl.start, sl.stop)
Slice(yv, sl) == [i \in 1..(sl.stop - sl.start) |-> yv[sl.start + i]]

\* FieldCollection([...]).data.ravel(): the five arrays one after another
Ravel(fs) ==
    [k \in 1..(no_fields * no_depths) |->
        fs[((k - 1) \div no_depths) + 1][((k - 1) % no_depths) + 1]]

----------------------------------------------------------------------------
(* calculate_sigma: the body of its loop, for one cell, with the branch    *)
(* that was taken.                                                         *)

\* calculate_sigma without its first branch
sigma_unguarded(Peclet, W_data, Pmin, Pmax) ==
    IF RLtV(Pmax, RAbsV(Peclet))
    THEN [sigma |-> RSignV(W_data), branch |-> "sign"]
    ELSE [sigma |-> RSub(CoshOverSinhV(Peclet), RDivV(One, Peclet)),
          branch |-> "closed"]

sigma_branches(Peclet, W_data, Pmin, Pmax) ==
    IF RLtV(RAbsV(Peclet), Pmin) THEN [sigma |-> Zero, branch |-> "centred"]
    ELSE IF RLtV(Pmax, RAbsV(Peclet))
         THEN [sigma |-> RSignV(W_data), branch |-> "sign"]
    ELSE [sigma |-> RSub(CoshOverSinhV(Peclet), RDivV(One, Peclet)),
          branch |-> "closed"]

sigma_cell(Peclet, W_data, Pmin, Pmax) ==
    Let(<<Peclet, W_data>>, LAMBDA v : sigma_branches(v[1], v[2], Pmin, Pmax))

calculate_sigma(Peclet, W_data, Pmin, Pmax) ==
    sigma_cell(Peclet, W_data, Pmin, Pmax).sigma

----------------------------------------------------------------------------
(* The gradients the right-hand side uses.                                 *)

\* the forward difference, which reads the ghost cell at the bottom
solid_grad_forward(data, bc) == grad_forw(data, bc)

\* CA_grad = CA_grad_back and CC_grad = CC_grad_back: the backward
\* difference, whatever the velocity
solid_grad(data, bc) == grad_back(data, bc)

\* the plain mean of the two differences, whatever sigma
weighted_grad_unweighted(sigma, forw, back) == RMul(Half, RAdd(forw, back))

\* 0.5 * ((1 - sigma) * grad_forw + (1 + sigma) * grad_back), the gradient
\* of cCa, cCO3 and Phi in fun
weighted_grad(sigma, forw, back) ==
    RMul(Half, RAdd(RMul(RSub(One, sigma), forw), RMul(RAdd(One, sigma), back)))

----------------------------------------------------------------------------
(* fun: the array-expression variant.  Every array expression of fun is    *)
(* elementwise, so element i of each array is computed from element i of   *)
(* its operands; fun_cell gives element i of every array of fun.           *)

\* element i of the five fields and of their differences
fun_fields(yv, bcs, i) ==
    LET CA == Slice(yv, slices_for_all_fields[0])
        CC == Slice(yv, slices_for_all_fields[1])
        cCa == Slice(yv, slices_for_all_fields[2])
        cCO3 == Slice(yv, slices_for_all_fields[3])
        Phi == Slice(yv, slices_for_all_fields[4])
    IN  [CA |-> CA[i], CC |-> CC[i], cCa |-> cCa[i], cCO3 |-> cCO3[i],
         Phi |-> Phi[i],
         CA_grad_back |-> solid_grad(CA, bcs[1])[i],
         CC_grad_back |-> solid_grad(CC, bcs[2])[i],
         cCa_grad_back |-> grad_back(cCa, bcs[3])[i],
         cCa_grad_forw |-> grad_forw(cCa, bcs[3])[i],
         cCa_laplace |-> laplace(cCa, bcs[3])[i],
         cCO3_grad_back |-> grad_back(cCO3, bcs[4])[i],
         cCO3_grad_forw |-> grad_forw(cCO3, bcs[4])[i],
         cCO3_laplace |-> laplace(cCO3, bcs[4])[i],
         Phi_grad_back |-> grad_back(Phi, bcs[5])[i],
         Phi_grad_forw |-> grad_forw(Phi, bcs[5])[i],
         Phi_laplace |-> laplace(Phi, bcs[5])[i]]

\* the reaction terms, the velocities and the diffusion coefficient of Phi
fun_local(c, a, i) ==
    LET two_factors == RMul(a.cCa, a.cCO3)
        two_factors_upp_lim == RMin(two_factors, One)
        two_factors_low_lim == RMax(two_factors, One)
        three_factors == RMul(two_factors, KRat)
        three_factors_upp_lim == RMin(three_factors, One)
        three_factors_low_lim == RMax(three_factors, One)
        coA == RMul(a.CA,
                 RSub(RMul(RPow(RSub(One, three_factors_upp_lim), m2),
                           RMul(not_too_deep[i], not_too_shallow[i])),
                      RMul(nu1, RPow(RSub(three_factors_low_lim, One), m1))))
        coC == RMul(a.CC,
                 RSub(RPow(RSub(two_factors_low_lim, One), n1),
                      RMul(nu2, RPow(RSub(One, two_factors_upp_lim), n2))))
        F == RSub(One, NpExp(RSub(Ten, RDiv(Ten, a.Phi))))
        U == RAdd(presum,
                  RDiv(RMul(RMul(rhorat, RPow(a.Phi, 3)), F), RSub(One, a.Phi)))
        CA_grad == a.CA_grad_back
        CC_grad == a.CC_grad_back
        W == RSub(presum, RMul(RMul(rhorat, RPow(a.Phi, 2)), F))
        denominator == RSub(One, RMul(Two, NpLog(a.Phi)))
        dPhi == RDiv(RMul(RMul(auxcon(c), F), RPow(a.Phi, 3)), RSub(One, a.Phi))
    IN  [two_factors_upp_lim |-> two_factors_upp_lim,
         two_factors_low_lim |-> two_factors_low_lim,
         three_factors_upp_lim |-> three_factors_upp_lim,
         three_factors_low_lim |-> three_factors_low_lim,
         coA |-> coA, coC |-> coC, F |-> F, U |-> U, W |-> W,
         CA_grad |-> CA_grad, CC_grad |-> CC_grad,
         denominator |-> denominator, dPhi |-> dPhi]

\* the Peclet numbers, the weights and the weighted gradients
fun_upwind(c, a, v) ==
    LET common_Peclet == RDiv(RMul(v.W, delta_x), Two)
        Peclet_cCa == RDiv(RMul(common_Peclet, v.denominator), dCa(c))
        sigma_cCa == calculate_sigma(Peclet_cCa, v.W, Peclet_min, Peclet_max)
        Peclet_cCO3 == RDiv(RMul(common_Peclet, v.denominator), dCO3(c))
        sigma_cCO3 == calculate_sigma(Peclet_cCO3, v.W, Peclet_min, Peclet_max)
        Peclet_Phi == RDiv(common_Peclet, v.dPhi)
        sigma_Phi == calculate_sigma(Peclet_Phi, v.W, Peclet_min, Peclet_max)
        cCa_grad == weighted_grad(sigma_cCa, a.cCa_grad_forw, a.cCa_grad_back)
        cCO3_grad == weighted_grad(sigma_cCO3, a.cCO3_grad_forw, a.cCO3_grad_back)
        Phi_grad == weighted_grad(sigma_Phi, a.Phi_grad_forw, a.Phi_grad_back)
    IN  [Peclet_cCa |-> Peclet_cCa, Peclet_cCO3 |-> Peclet_cCO3,
         Peclet_Phi |-> Peclet_Phi,
         sigma_cCa |-> sigma_cCa, sigma_cCO3 |-> sigma_cCO3, sigma_Phi |-> sigma_Phi,
         branch_cCa |-> sigma_cell(Peclet_cCa, v.W, Peclet_min, Peclet_max).branch,
         branch_cCO3 |-> sigma_cell(Peclet_cCO3, v.W, Peclet_min, Peclet_max).branch,
         branch_Phi |-> sigma_cell(Peclet_Phi, v.W, Peclet_min, Peclet_max).branch,
         cCa_grad |-> cCa_grad, cCO3_grad |-> cCO3_grad, Phi_grad |-> Phi_grad]

\* fun_rates with CC for CA in the calcite term of dCA_dt
fun_rates_mixed(c, a, v, w) ==
    LET dCA_dt == RSub(RMul(RNeg(v.U), v.CA_grad),
                       RMul(Da, RAdd(RMul(RSub(One, a.CA), v.coA),
                                     RMul(RMul(lambda_, a.CC), v.coC))))
        dCC_dt == RAdd(RMul(RNeg(v.U), v.CC_grad),
                       RMul(Da, RAdd(RMul(RMul(lambda_, RSub(One, a.CC)), v.coC),
                                     RMul(a.CC, v.coA))))
        Phi_denom == RDiv(a.Phi, v.denominator)
        grad_Phi_denom == RDiv(RMul(w.Phi_grad, RAdd(v.denominator, Two)),
                               RPow(v.denominator, 2))
        common_helper == RSub(v.coA, RMul(lambda_, v.coC))
        dcCa_dt ==
            RAdd(RSub(RDiv(RMul(RAdd(RMul(w.cCa_grad, grad_Phi_denom),
                                     RMul(Phi_denom, a.cCa_laplace)), dCa(c)), a.Phi),
                      RMul(v.W, w.cCa_grad)),
                 RDiv(RMul(RMul(RMul(Da, RSub(One, a.Phi)), RSub(delta, a.cCa)),
                           common_helper), a.Phi))
        dcCO3_dt ==
            RAdd(RSub(RDiv(RMul(RAdd(RMul(w.cCO3_grad, grad_Phi_denom),
                                     RMul(Phi_denom, a.cCO3_laplace)), dCO3(c)), a.Phi),
                      RMul(v.W, w.cCO3_grad)),
                 RDiv(RMul(RMul(RMul(Da, RSub(One, a.Phi)), RSub(delta, a.cCO3)),
                           common_helper), a.Phi))
        dW_dx == RMul(RMul(RNeg(rhorat), w.Phi_grad),
                      RAdd(RMul(RMul(Two, a.Phi), v.F), RMul(Ten, RSub(v.F, One))))
        dPhi_dt == RAdd(RAdd(RNeg(RAdd(RMul(a.Phi, dW_dx), RMul(v.W, w.Phi_grad))),
                             RMul(v.dPhi, a.Phi_laplace)),
                        RMul(RMul(Da, RSub(One, a.Phi)), common_helper))
    IN  [dW_dx |-> dW_dx, dCA_dt |-> dCA_dt, dCC_dt |-> dCC_dt,
         dcCa_dt |-> dcCa_dt, dcCO3_dt |-> dcCO3_dt, dPhi_dt |-> dPhi_dt]

\* fun_rates with coA in dCC_dt not weighted by CC
fun_rates_unweighted(c, a, v, w) ==
    LET dCA_dt == RSub(RMul(RNeg(v.U), v.CA_grad),
                       RMul(Da, RAdd(RMul(RSub(One, a.CA), v.coA),
                                     RMul(RMul(lambda_, a.CA), v.coC))))
        dCC_dt == RAdd(RMul(RNeg(v.U), v.CC_grad),
                       RMul(Da, RAdd(RMul(RMul(lambda_, RSub(One, a.CC)), v.coC),
                                     v.coA)))
        Phi_denom == RDiv(a.Phi, v.denominator)
        grad_Phi_denom == RDiv(RMul(w.Phi_grad, RAdd(v.denominator, Two)),
                               RPow(v.denominator, 2))
        common_helper == RSub(v.coA, RMul(lambda_, v.coC))
        dcCa_dt ==
            RAdd(RSub(RDiv(RMul(RAdd(RMul(w.cCa_grad, grad_Phi_denom),
                                     RMul(Phi_denom, a.cCa_laplace)), dCa(c)), a.Phi),
                      RMul(v.W, w.cCa_grad)),
                 RDiv(RMul(RMul(RMul(Da, RSub(One, a.Phi)), RSub(delta, a.cCa)),
                           common_helper), a.Phi))
        dcCO3_dt ==
            RAdd(RSub(RDiv(RMul(RAdd(RMul(w.cCO3_grad, grad_Phi_denom),
                                     RMul(Phi_denom, a.cCO3_laplace)), dCO3(c)), a.Phi),
                      RMul(v.W, w.cCO3_grad)),
                 RDiv(RMul(RMul(RMul(Da, RSub(One, a.Phi)), RSub(delta, a.cCO3)),
                           common_helper), a.Phi))
        dW_dx == RMul(RMul(RNeg(rhorat), w.Phi_grad),
                      RAdd(RMul(RMul(Two, a.Phi), v.F), RMul(Ten, RSub(v.F, One))))
        dPhi_dt == RAdd(RAdd(RNeg(RAdd(RMul(a.Phi, dW_dx), RMul(v.W, w.Phi_grad))),
                             RMul(v.dPhi, a.Phi_laplace)),
                        RMul(RMul(Da, RSub(One, a.Phi)), common_helper))
    IN  [dW_dx |-> dW_dx, dCA_dt |-> dCA_dt, dCC_dt |-> dCC_dt,
         dcCa_dt |-> dcCa_dt, dcCO3_dt |-> dcCO3_dt, dPhi_dt |-> dPhi_dt]

\* the five time derivatives
fun_rates(c, a, v, w) ==
    LET dCA_dt == RSub(RMul(RNeg(v.U), v.CA_grad),
                       RMul(Da, RAdd(RMul(RSub(One, a.CA), v.coA),
                                     RMul(RMul(lambda_, a.CA), v.coC))))
        dCC_dt == RAdd(RMul(RNeg(v.U), v.CC_grad),
                       RMul(Da, RAdd(RMul(RMul(lambda_, RSub(One, a.CC)), v.coC),
                                     RMul(a.CC, v.coA))))
        Phi_denom == RDiv(a.Phi, v.denominator)
        grad_Phi_denom == RDiv(RMul(w.Phi_grad, RAdd(v.denominator, Two)),
                               RPow(v.denominator, 2))
        common_helper == RSub(v.coA, RMul(lambda_, v.coC))
        dcCa_dt ==
            RAdd(RSub(RDiv(RMul(RAdd(RMul(w.cCa_grad, grad_Phi_denom),
                                     RMul(Phi_denom, a.cCa_laplace)), dCa(c)), a.Phi),
                      RMul(v.W, w.cCa_grad)),
                 RDiv(RMul(RMul(RMul(Da, RSub(One, a.Phi)), RSub(delta, a.cCa)),
                           common_helper), a.Phi))
        dcCO3_dt ==
            RAdd(RSub(RDiv(RMul(RAdd(RMul(w.cCO3_grad, grad_Phi_denom),
                                     RMul(Phi_denom, a.cCO3_laplace)), dCO3(c)), a.Phi),
                      RMul(v.W, w.cCO3_grad)),
                 RDiv(RMul(RMul(RMul(Da, RSub(One, a.Phi)), RSub(delta, a.cCO3)),
                           common_helper), a.Phi))
        dW_dx == RMul(RMul(RNeg(rhorat), w.Phi_grad),
                      RAdd(RMul(RMul(Two, a.Phi), v.F), RMul(Ten, RSub(v.F, One))))
        dPhi_dt == RAdd(RAdd(RNeg(RAdd(RMul(a.Phi, dW_dx), RMul(v.W, w.Phi_grad))),
                             RMul(v.dPhi, a.Phi_laplace)),
                        RMul(RMul(Da, RSub(One, a.Phi)), common_helper))
    IN  [dW_dx |-> dW_dx, dCA_dt |-> dCA_dt, dCC_dt |-> dCC_dt,
         dcCa_dt |-> dcCa_dt, dcCO3_dt |-> dcCO3_dt, dPhi_dt |-> dPhi_dt]

\* element i of every array of fun
fun_cell(c, yv, bcs, i) ==
    Let(fun_fields(yv, bcs, i), LAMBDA a :
        Let(fun_local(c, a, i), LAMBDA v :
            Let(fun_upwind(c, a, v), LAMBDA w :
                a @@ v @@ w @@ fun_rates(c, a, v, w))))

\* What a call returns: the vector, or the error raised on the way.
Outcome(rate) ==
    Let(rate, LAMBDA r :
        IF \E k \in DOMAIN r : r[k] = Err
        THEN [status |-> "raised", rate |-> <<>>]
        ELSE [status |-> "returned", rate |-> r])

\* element 1..n of every array of fun
RECURSIVE fun_cells(_, _, _, _)
fun_cells(c, yv, bcs, n) ==
    IF n = 0 THEN <<>>
    ELSE Append(fun_cells(c, yv, bcs, n - 1), fun_cell(c, yv, bcs, n))

\* FieldCollection([dCA_dt, dCC_dt, dcCa_dt, dcCO3_dt, dPhi_dt]).data.ravel()
fun_rate(cell) ==
    Ravel(<<[i \in Cells |-> cell[i].dCA_dt], [i \in Cells |-> cell[i].dCC_dt],
            [i \in Cells |-> cell[i].dcCa_dt], [i \in Cells |-> cell[i].dcCO3_dt],
            [i \in Cells |-> cell[i].dPhi_dt]>>)

\* the arrays fun computes for y under the boundary conditions bcs, and
\* what it returns
fun_eval(c, yv, bcs) ==
    Let(fun_cells(c, yv, bcs, no_depths), LAMBDA cell :
        [res |-> Outcome(fun_rate(cell)), cells |-> cell])

----------------------------------------------------------------------------
(* fun_numba and pde_rhs: the fused per-cell loop.  The compiled loop      *)
(* raises on a division by zero (ZeroDivisionError), the one error the     *)
(* states of the model reach.                                              *)

\* the sigma code written out in the loop of pde_rhs, three times, with
\* the branch that was taken
\* the thresholds included in the outer branches: <= and >= for < and >
sigma_inline_inclusive(Peclet, W_i, Pmin, Pmax) ==
    IF RLeV(RAbsV(Peclet), Pmin) THEN [sigma |-> Zero, branch |-> "centred"]
    ELSE IF RLeV(Pmax, RAbsV(Peclet))
         THEN [sigma |-> RSignV(W_i), branch |-> "sign"]
    ELSE [sigma |-> RSub(CoshOverSinhV(Peclet), RDivV(One, Peclet)),
          branch |-> "closed"]

sigma_inline_branches(Peclet, W_i, Pmin, Pmax) ==
    IF RLtV(RAbsV(Peclet), Pmin) THEN [sigma |-> Zero, branch |-> "centred"]
    ELSE IF RLtV(Pmax, RAbsV(Peclet))
         THEN [sigma |-> RSignV(W_i), branch |-> "sign"]
    ELSE [sigma |-> RSub(CoshOverSinhV(Peclet), RDivV(One, Peclet)),
          branch |-> "closed"]

sigma_inline(Peclet, W_i, Pmin, Pmax) ==
    Let(<<Peclet, W_i>>, LAMBDA v : sigma_inline_branches(v[1], v[2], Pmin, Pmax))

\* the weights of the two differences exchanged
weighted_grad_exchanged(sigma, forw, back) ==
    RMul(Half, RAdd(RMul(RAdd(One, sigma), forw), RMul(RSub(One, sigma), back)))

\* the gradient of cCa, cCO3 and Phi in the loop of pde_rhs
weighted_grad_inline(sigma, forw, back) ==
    RMul(Half, RAdd(RMul(RSub(One, sigma), forw), RMul(RAdd(One, sigma), back)))

\* the five derivatives of a cell next to each other
rate_index_interleaved(f, i) == (i - 1) * no_fields + f + 1

\* the position in rate of the derivative of field f at cell i (cells are
\* numbered from 1 here, and so are the positions)
rate_index(f, i) == f * no_depths + i

\* one pass of the loop body, first part: the velocities and the diffusion
\* coefficient of Phi
pde_rhs_local(c, a, i) ==
    LET F == RSub(One, NpExp(RSub(Ten, RDiv(Ten, a.Phi[i]))))
        U == RAdd(presum,
                  RDiv(RMul(RMul(rhorat, RPow(a.Phi[i], 3)), F), RSub(One, a.Phi[i])))
        CA_grad == a.CA_grad_back[i]
        CC_grad == a.CC_grad_back[i]
        W == RSub(presum, RMul(RMul(rhorat, RPow(a.Phi[i], 2)), F))
        denominator == RSub(One, RMul(Two, NpLog(a.Phi[i])))
        one_minus_Phi == RSub(One, a.Phi[i])
        dPhi == RDiv(RMul(RMul(auxcon(c), F), RPow(a.Phi[i], 3)), one_minus_Phi)
    IN  [F |-> F, U |-> U, CA_grad |-> CA_grad, CC_grad |-> CC_grad, W |-> W,
         denominator |-> denominator, one_minus_Phi |-> one_minus_Phi,
         dPhi |-> dPhi]

\* second part: the Peclet numbers, the weights and the weighted gradients
pde_rhs_upwind(c, a, v, i) ==
    LET Peclet_cCa == RDiv(RMul(RMul(v.W, delta_x), v.denominator),
                           RMul(Two, dCa(c)))
        inline_cCa == sigma_inline(Peclet_cCa, v.W, Peclet_min, Peclet_max)
        Peclet_cCO3 == RDiv(RMul(RMul(v.W, delta_x), v.denominator),
                            RMul(Two, dCO3(c)))
        inline_cCO3 == sigma_inline(Peclet_cCO3, v.W, Peclet_min, Peclet_max)
        Peclet_Phi == RDiv(RMul(v.W, delta_x), RMul(Two, v.dPhi))
        inline_Phi == sigma_inline(Peclet_Phi, v.W, Peclet_min, Peclet_max)
        cCa_grad == weighted_grad_inline(inline_cCa.sigma, a.cCa_grad_forw[i],
                                         a.cCa_grad_back[i])
        cCO3_grad == weighted_grad_inline(inline_cCO3.sigma, a.cCO3_grad_forw[i],
                                          a.cCO3_grad_back[i])
        Phi_grad == weighted_grad_inline(inline_Phi.sigma, a.Phi_grad_forw[i],
                                         a.Phi_grad_back[i])
    IN  [Peclet_cCa |-> Peclet_cCa, Peclet_cCO3 |-> Peclet_cCO3,
         Peclet_Phi |-> Peclet_Phi,
         sigma_cCa |-> inline_cCa.sigma, sigma_cCO3 |-> inline_cCO3.sigma,
         sigma_Phi |-> inline_Phi.sigma,
         branch_cCa |-> inline_cCa.branch, branch_cCO3 |-> inline_cCO3.branch,
         branch_Phi |-> inline_Phi.branch,
         cCa_grad_back |-> a.cCa_grad_back[i], cCa_grad_forw |-> a.cCa_grad_forw[i],
         cCO3_grad_back |-> a.cCO3_grad_back[i],
         cCO3_grad_forw |-> a.cCO3_grad_forw[i],
         Phi_grad_back |-> a.Phi_grad_back[i], Phi_grad_forw |-> a.Phi_grad_forw[i],
         cCa_grad |-> cCa_grad, cCO3_grad |-> cCO3_grad, Phi_grad |-> Phi_grad]

\* third part: the reaction terms and the five entries of rate
pde_rhs_rates(c, a, v, w, i) ==
    LET common_helper1 == RDiv(a.Phi[i], v.denominator)
        common_helper2 == RDiv(RMul(w.Phi_grad, RAdd(Two, v.denominator)),
                               RPow(v.denominator, 2))
        helper_cCa_grad == RMul(dCa(c), RAdd(RMul(common_helper2, w.cCa_grad),
                                             RMul(common_helper1, a.cCa_laplace[i])))
        helper_cCO3_grad == RMul(dCO3(c), RAdd(RMul(common_helper2, w.cCO3_grad),
                                               RMul(common_helper1, a.cCO3_laplace[i])))
        two_factors == RMul(a.cCa[i], a.cCO3[i])
        two_factors_upp_lim == RMin(two_factors, One)
        two_factors_low_lim == RMax(two_factors, One)
        three_factors == RMul(two_factors, KRat)
        three_factors_upp_lim == RMin(three_factors, One)
        three_factors_low_lim == RMax(three_factors, One)
        coA == RMul(a.CA[i],
                 RSub(RMul(RPow(RSub(One, three_factors_upp_lim), m2),
                           RMul(not_too_deep[i], not_too_shallow[i])),
                      RMul(nu1, RPow(RSub(three_factors_low_lim, One), m1))))
        coC == RMul(a.CC[i],
                 RSub(RPow(RSub(two_factors_low_lim, One), n1),
                      RMul(nu2, RPow(RSub(One, two_factors_upp_lim), n2))))
        common_helper3 == RSub(coA, RMul(lambda_, coC))
        dW_dx == RMul(RMul(RNeg(rhorat), w.Phi_grad),
                      RAdd(RMul(RMul(Two, a.Phi[i]), v.F), RMul(Ten, RSub(v.F, One))))
        dCA_dt == RSub(RMul(RNeg(v.U), v.CA_grad),
                       RMul(Da, RAdd(RMul(RSub(One, a.CA[i]), coA),
                                     RMul(RMul(lambda_, a.CA[i]), coC))))
        dCC_dt == RAdd(RMul(RNeg(v.U), v.CC_grad),
                       RMul(Da, RAdd(RMul(RMul(lambda_, RSub(One, a.CC[i])), coC),
                                     RMul(a.CC[i], coA))))
        dcCa_dt ==
            RAdd(RSub(RDiv(helper_cCa_grad, a.Phi[i]), RMul(v.W, w.cCa_grad)),
                 RDiv(RMul(RMul(RMul(Da, v.one_minus_Phi), RSub(delta, a.cCa[i])),
                           common_helper3), a.Phi[i]))
        dcCO3_dt ==
            RAdd(RSub(RDiv(helper_cCO3_grad, a.Phi[i]), RMul(v.W, w.cCO3_grad)),
                 RDiv(RMul(RMul(RMul(Da, v.one_minus_Phi), RSub(delta, a.cCO3[i])),
                           common_helper3), a.Phi[i]))
        dPhi_dt == RAdd(RAdd(RNeg(RAdd(RMul(dW_dx, a.Phi[i]), RMul(v.W, w.Phi_grad))),
                             RMul(v.dPhi, a.Phi_laplace[i])),
                        RMul(RMul(Da, v.one_minus_Phi), common_helper3))
    IN  [two_factors_upp_lim |-> two_factors_upp_lim,
         two_factors_low_lim |-> two_factors_low_lim,
         three_factors_upp_lim |-> three_factors_upp_lim,
         three_factors_low_lim |-> three_factors_low_lim,
         coA |-> coA, coC |-> coC, dW_dx |-> dW_dx,
         dCA_dt |-> dCA_dt, dCC_dt |-> dCC_dt, dcCa_dt |-> dcCa_dt,
         dcCO3_dt |-> dcCO3_dt, dPhi_dt |-> dPhi_dt]

\* one pass of the loop body: the values assigned at index i
pde_rhs_cell(c, a, i) ==
    Let(pde_rhs_local(c, a, i), LAMBDA v :
        Let(pde_rhs_upwind(c, a, v, i), LAMBDA w :
            v @@ w @@ pde_rhs_rates(c, a, v, w, i)))

\* rate[k] = v
Store(st, k, v) ==
    Let(st, LAMBDA q : [q EXCEPT !.rate = [q.rate EXCEPT ![k] = v],
                                 !.writes = [q.writes EXCEPT ![k] = @ + 1]])

\* the five assignments to rate of pass n
pde_rhs_pass(before, cell, n) ==
    [Store(Store(Store(Store(Store(before,
        rate_index(0, n), cell.dCA_dt),
        rate_index(1, n), cell.dCC_dt),
        rate_index(2, n), cell.dcCa_dt),
        rate_index(3, n), cell.dcCO3_dt),
        rate_index(4, n), cell.dPhi_dt)
     EXCEPT !.cells = Append(before.cells, cell)]

\* pde_rhs after n passes of its loop: rate, which np.empty leaves
\* uninitialised, the number of assignments to each of its entries, and the
\* values of every pass
RECURSIVE pde_rhs_loop(_, _, _)
pde_rhs_loop(c, a, n) ==
    IF n = 0
    THEN [rate |-> [k \in 1..(5 * no_depths) |-> Uninit],
          writes |-> [k \in 1..(5 * no_depths) |-> 0],
          cells |-> <<>>]
    ELSE Let(<<pde_rhs_loop(c, a, n - 1), pde_rhs_cell(c, a, n)>>,
             LAMBDA p : pde_rhs_pass(p[1], p[2], n))

pde_rhs(c, a) == pde_rhs_loop(c, a, no_depths)

\* the arrays fun_numba hands to pde_rhs
fun_numba_arrays(yv, bcs) ==
    LET CA == Slice(yv, slices_for_all_fields[0])
        CC == Slice(yv, slices_for_all_fields[1])
        cCa == Slice(yv, slices_for_all_fields[2])
        cCO3 == Slice(yv, slices_for_all_fields[3])
        Phi == Slice(yv, slices_for_all_fields[4])
    IN  [CA |-> CA, CC |-> CC, cCa |-> cCa, cCO3 |-> cCO3, Phi |-> Phi,
         CA_grad_back |-> grad_back(CA, bcs[1]),
         CC_grad_back |-> grad_back(CC, bcs[2]),
         cCa_grad_back |-> grad_back(cCa, bcs[3]),
         cCa_grad_forw |-> grad_forw(cCa, bcs[3]),
         cCa_laplace |-> laplace(cCa, bcs[3]),
         cCO3_grad_back |-> grad_back(cCO3, bcs[4]),
         cCO3_grad_forw |-> grad_forw(cCO3, bcs[4]),
         cCO3_laplace |-> laplace(cCO3, bcs[4]),
         Phi_grad_back |-> grad_back(Phi, bcs[5]),
         Phi_grad_forw |-> grad_forw(Phi, bcs[5]),
         Phi_laplace |-> laplace(Phi, bcs[5])]

\* what pde_rhs computes for y under the boundary conditions bcs and what
\* fun_numba returns
fun_numba_eval(c, yv, bcs) ==
    Let(fun_numba_arrays(yv, bcs), LAMBDA a :
        Let(pde_rhs(c, a), LAMBDA rhs :
            [res |-> Outcome(rhs.rate), cells |-> rhs.cells,
             writes |-> rhs.writes]))

----------------------------------------------------------------------------
(* jacobian_sparsity.  Rows and columns are numbered from 0, as in the     *)
(* code; an entry of the matrix is the number of times one was added to it.*)

MatrixIndex == 0..(no_fields * no_depths - 1)

\* every block, the two of the Phi row included
block_included_all(i, j) == i < no_fields \/ j > 1

\* the condition under which the double loop adds block (i, j)
block_included(i, j) == i < no_fields - 1 \/ j > 1

\* (i * no_depths + row, j * no_depths + col): the places of block (i, j)
block_entries(i, j) ==
    {<<i * no_depths + k, j * no_depths + k>> : k \in 0..(no_depths - 1)}

\* jacob_csr after the first p passes of the double loop over (i, j)
RECURSIVE jacobian_passes(_)
jacobian_passes(p) ==
    IF p = 0 THEN [e \in MatrixIndex \X MatrixIndex |-> 0]
    ELSE LET before == jacobian_passes(p - 1)
             i == (p - 1) \div no_fields
             j == (p - 1) % no_fields
         IN  IF block_included(i, j)
             THEN [e \in MatrixIndex \X MatrixIndex |->
                      before[e] + (IF e \in block_entries(i, j) THEN 1 ELSE 0)]
             ELSE before

jacobian_sparsity == jacobian_passes(no_fields * no_fields)

----------------------------------------------------------------------------
(* The event functions.  They are numpy expressions, so a floating-point   *)
(* error in one of them is raised.                                         *)

\* np.amin and np.amax of an array
amin(a) ==
    IF \E k \in DOMAIN a : ~IsNum(a[k]) THEN Err
    ELSE CHOOSE v \in {a[k] : k \in DOMAIN a} : \A k \in DOMAIN a : RLe(v, a[k])

amax(a) ==
    IF \E k \in DOMAIN a : ~IsNum(a[k]) THEN Err
    ELSE CHOOSE v \in {a[k] : k \in DOMAIN a} : \A k \in DOMAIN a : RLe(a[k], v)

zeros(yv) == amin(yv)

\* the minimum over the slice of CC
zeros_CA_of_CC(yv) == amin(Slice(yv, CC_sl))

zeros_CA(yv) == amin(Slice(yv, CA_sl))

zeros_CC(yv) == amin(Slice(yv, CC_sl))

\* the two maxima taken apart
ones_CA_plus_CC_apart(yv) ==
    RSub(RAdd(amax(Slice(yv, CA_sl)), amax(Slice(yv, CC_sl))), One)

ones_CA_plus_CC(yv) ==
    LET CA == Slice(yv, CA_sl)
        CC == Slice(yv, CC_sl)
    IN  RSub(amax([i \in Cells |-> RAdd(CA[i], CC[i])]), One)

\* the least porosity in the place of the greatest
ones_Phi_of_least(yv) ==
    LET Phi == Slice(yv, Phi_sl)
    IN  RSub(amin(Phi), One)

ones_Phi(yv) ==
    LET Phi == Slice(yv, Phi_sl)
    IN  RSub(amax(Phi), One)

\* U with the square of Phi, as in W
zeros_U_squared(yv) ==
    LET Phi == Slice(yv, Phi_sl)
        F == [i \in Cells |-> RSub(One, NpExp(RSub(Ten, RDiv(Ten, Phi[i]))))]
        U == [i \in Cells |->
                 RAdd(presum, RDiv(RMul(RMul(rhorat, RPow(Phi[i], 2)), F[i]),
                                   RSub(One, Phi[i])))]
    IN  amin(U)

zeros_U(yv) ==
    LET Phi == Slice(yv, Phi_sl)
        F == [i \in Cells |-> RSub(One, NpExp(RSub(Ten, RDiv(Ten, Phi[i]))))]
        U == [i \in Cells |->
                 RAdd(presum, RDiv(RMul(RMul(rhorat, RPow(Phi[i], 3)), F[i]),
                                   RSub(One, Phi[i])))]
    IN  amin(U)

zeros_W(yv) ==
    LET Phi == Slice(yv, Phi_sl)
        F == [i \in Cells |-> RSub(One, NpExp(RSub(Ten, RDiv(Ten, Phi[i]))))]
        W == [i \in Cells |->
                 RSub(presum, RMul(RMul(rhorat, RPow(Phi[i], 2)), F[i]))]
    IN  amax(W)

\* the events in the order ScenarioA hands them to solve_ivp
Events ==
    <<"zeros", "zeros_CA", "zeros_CC", "ones_CA_plus_CC", "ones_Phi",
      "zeros_U", "zeros_W">>

event_value(e, yv) ==
    CASE e = "zeros" -> zeros(yv)
      [] e = "zeros_CA" -> zeros_CA(yv)
      [] e = "zeros_CC" -> zeros_CC(yv)
      [] e = "ones_CA_plus_CC" -> ones_CA_plus_CC(yv)
      [] e = "ones_Phi" -> ones_Phi(yv)
      [] e = "zeros_U" -> zeros_U(yv)
      [] e = "zeros_W" -> zeros_W(yv)

\* What a call of an event function returns
EventOutcome(v) ==
    IF v = Err THEN [status |-> "raised", value |-> Err]
    ELSE [status |-> "returned", value |-> v]

----------------------------------------------------------------------------
(* The progress bookkeeping at the head of fun, fun_numba and jac.  Times  *)
(* and progress_dt are whole numbers.                                      *)

\* int(n / d) for d > 0: the quotient, truncated toward zero
IntTrunc(n, d) == IF n >= 0 THEN n \div d ELSE -((-n) \div d)

\* the number of updates sent to the progress bar and the new last_t
progress(t, lt, a) ==
    LET started == IF lt = 0 THEN a.t0 ELSE lt
        n == IntTrunc(t - started, a.progress_dt)
    IN  [n |-> n, last_t |-> started + n * a.progress_dt]

----------------------------------------------------------------------------
(* The solver driving the model object.                                    *)

\* solver steps explored from the initial state
MaxSteps == 1

\* solver steps explored where only the event functions are evaluated
MaxEventSteps == 2

\* the times of the calls are 0..MaxT
MaxT == 1

\* the progress bar is followed while |pbar| <= MaxBar
MaxBar == 3

Times == 0..MaxT

NoResult == [status |-> "none"]

\* no call of fun or fun_numba was taken on this y yet
NoCall == [y |-> <<>>, status |-> "none", rate |-> <<>>]

\* ScalarField(Depths, v) for each field, and get_state(...).data.ravel()
Uniform(v) == Ravel([f \in 1..no_fields |-> [i \in Cells |-> v[f]]])

CAIni == CA0
CCIni == CC0

\* initial states on which the right-hand side is evaluated
RhsInitial ==
    {Uniform(<<CAIni, CCIni, ion[1], ion[2], PhiIni>>) :
        ion \in {<<Half, Half>>, <<Zero, Zero>>, <<Two, Two>>, <<Two, Half>>},
        PhiIni \in {<<1, 2>>, <<1, 4>>}}

\* the values a solver step moves an entry of field f to
RhsValues ==
    <<{<<1, 2>>, Zero, <<-1, 4>>}, {<<1, 4>>, <<3, 4>>, Zero},
      {Half, Zero, Two, <<-1, 2>>},
      {Half, Zero, Two}, {<<1, 2>>, <<1, 4>>, One, Zero}>>

\* initial states and values where only the event functions are evaluated:
\* these include a porosity above one and a solid fraction of one
EventInitial ==
    {Uniform(<<ara, CCIni, cCa0, cCO30, Phi0>>) : ara \in {<<1, 2>>, <<3, 4>>}}

EventValues ==
    <<{<<1, 2>>, Zero, <<-1, 4>>, <<3, 4>>, <<5, 4>>}, {<<1, 4>>, <<3, 4>>, <<5, 4>>},
      {Half, Zero, Two},
      {Half, Zero, Two}, {<<1, 2>>, <<1, 4>>, One, Zero, Two}>>

FieldOf(k) == (k - 1) \div no_depths

\* the names of the events
EventSet == {Events[k] : k \in DOMAIN Events}

\* terminal set on zeros
terminal_on_zeros(e) == e = "zeros"

\* terminal set on every event
terminal_on_all(e) == TRUE

\* event.terminal as solve_ivp reads it: what __init__ set on the function
terminal(e) ==
    CASE e = "zeros" -> FALSE
      [] e = "zeros_CA" -> FALSE
      [] e = "zeros_CC" -> FALSE
      [] e = "ones_CA_plus_CC" -> FALSE
      [] e = "ones_Phi" -> FALSE
      [] e = "zeros_U" -> FALSE
      [] e = "zeros_W" -> FALSE

\* solve_ivp at the start of the integration: running, no event recorded
SolveStart == [status |-> "running", t_events |-> [e \in EventSet |-> <<>>]]

\* solver steps explored where the solver follows the events
MaxSolveSteps == 2

ArgSet == {[progress_dt |-> 1, t0 |-> 0]}

Init ==
    /\ cfg \in Configs
    /\ y \in RhsInitial
    /\ steps = 0
    /\ last_t = 0
    /\ pbar = 0
    /\ args \in ArgSet
    /\ op = "idle"
    /\ out = NoResult
    /\ locals = <<>>
    /\ sol = SolveStart
    /\ prev = NoCall

InitEvents ==
    /\ cfg = "A"
    /\ y \in EventInitial
    /\ steps = 0
    /\ last_t = 0
    /\ pbar = 0
    /\ args \in ArgSet
    /\ op = "idle"
    /\ out = NoResult
    /\ locals = <<>>
    /\ sol = SolveStart
    /\ prev = NoCall

\* the solver moves entry k of y to v
SolverStep(k, v) ==
    /\ op = "idle"
    /\ v # y[k]
    /\ y' = [y EXCEPT ![k] = v]
    /\ steps' = steps + 1
    /\ op' = "idle"
    /\ out' = NoResult
    /\ locals' = <<>>
    /\ prev' = NoCall
    /\ UNCHANGED <<sol, cfg, last_t, pbar, args>>

\* fun with n * progress_dt added to the vector instead of to last_t alone
Fun_progressed(t) ==
    LET p == progress(t, last_t, args)
        r == fun_eval(cfg, y, BCs)
        moved == [k \in DOMAIN r.res.rate |->
                     RAdd(r.res.rate[k], R(p.n * args.progress_dt, 1))]
    IN  /\ op = "idle"
        /\ Abs(pbar + p.n) <= MaxBar
        /\ last_t' = p.last_t
        /\ pbar' = pbar + p.n
        /\ op' = "fun"
        /\ out' = [r.res EXCEPT !.rate = moved]
        /\ locals' = r.cells
        /\ UNCHANGED <<prev, sol, cfg, y, steps, args>>

Fun(t) ==
    LET p == progress(t, last_t, args)
        r == fun_eval(cfg, y, BCs)
    IN  /\ op = "idle"
        /\ Abs(pbar + p.n) <= MaxBar
        /\ last_t' = p.last_t
        /\ pbar' = pbar + p.n
        /\ op' = "fun"
        /\ out' = r.res
        /\ locals' = r.cells
        /\ UNCHANGED <<prev, sol, cfg, y, steps, args>>

FunNumba(t) ==
    LET p == progress(t, last_t, args)
        r == fun_numba_eval(cfg, y, BCs)
    IN  /\ op = "idle"
        /\ Abs(pbar + p.n) <= MaxBar
        /\ last_t' = p.last_t
        /\ pbar' = pbar + p.n
        /\ op' = "fun_numba"
        /\ out' = r.res @@ [writes |-> r.writes]
        /\ locals' = r.cells
        /\ UNCHANGED <<prev, sol, cfg, y, steps, args>>

\* jac: the bookkeeping, and the matrix that Jacobian of Compute_jacobian
\* returns, which is left abstract
Jac(t) ==
    LET p == progress(t, last_t, args)
    IN  /\ op = "idle"
        /\ Abs(pbar + p.n) <= MaxBar
        /\ last_t' = p.last_t
        /\ pbar' = pbar + p.n
        /\ op' = "jac"
        /\ out' = [status |-> "returned", value |-> "jacob_csr"]
        /\ locals' = <<>>
        /\ UNCHANGED <<prev, sol, cfg, y, steps, args>>

JacobianSparsity ==
    /\ op = "idle"
    /\ op' = "jacobian_sparsity"
    /\ out' = [status |-> "returned", value |-> jacobian_sparsity]
    /\ locals' = <<>>
    /\ UNCHANGED <<prev, sol, cfg, y, steps, last_t, pbar, args>>

\* an event function with the progress bookkeeping of fun at its head
EventCall_with_progress(e) ==
    LET p == progress(MaxT, last_t, args)
    IN  /\ op = "idle"
        /\ Abs(pbar + p.n) <= MaxBar
        /\ last_t' = p.last_t
        /\ pbar' = pbar + p.n
        /\ op' = e
        /\ out' = EventOutcome(event_value(e, y))
        /\ locals' = <<>>
        /\ UNCHANGED <<prev, sol, cfg, y, steps, args>>

\* a call of event function e
EventCall(e) ==
    /\ op = "idle"
    /\ op' = e
    /\ out' = EventOutcome(event_value(e, y))
    /\ locals' = <<>>
    /\ UNCHANGED <<prev, sol, cfg, y, steps, last_t, pbar, args>>

Zeros == EventCall("zeros")
ZerosCA == EventCall("zeros_CA")
ZerosCC == EventCall("zeros_CC")
OnesCAPlusCC == EventCall("ones_CA_plus_CC")
OnesPhi == EventCall("ones_Phi")
ZerosU == EventCall("zeros_U")
ZerosW == EventCall("zeros_W")

\* the Peclet numbers and velocities the sigma code is called with on its
\* own: on both sides of the two thresholds and of 0
SigmaMagnitudes ==
    {<<1, 200>>, <<1, 100>>, <<1, 50>>, <<1, 2>>, One, <<6, 5>>, <<3, 2>>, Two,
     <<3, 1>>, <<50, 1>>, <<100, 1>>, <<101, 1>>, <<1000, 1>>}

SigmaPeclets == {Zero} \cup SigmaMagnitudes \cup {RNeg(q) : q \in SigmaMagnitudes}

SigmaVelocities == {<<-1, 1>>, Zero, One, <<-1, 8>>}

InitSigma ==
    /\ cfg = "A"
    /\ y = <<>>
    /\ steps = 0
    /\ last_t = 0
    /\ pbar = 0
    /\ args \in [Peclet : SigmaPeclets, W_data : SigmaVelocities,
                 Peclet_min : {Peclet_min}, Peclet_max : {Peclet_max}]
    /\ op = "idle"
    /\ out = NoResult
    /\ locals = <<>>
    /\ sol = SolveStart
    /\ prev = NoCall

\* What a call of the sigma code returns for one element
SigmaOutcome(r) ==
    IF r.sigma = Err THEN [status |-> "raised", value |-> Err, branch |-> r.branch]
    ELSE [status |-> "returned", value |-> r.sigma, branch |-> r.branch]

CalculateSigma ==
    /\ op = "idle"
    /\ op' = "calculate_sigma"
    /\ out' = SigmaOutcome(sigma_cell(args.Peclet, args.W_data,
                                      args.Peclet_min, args.Peclet_max))
    /\ UNCHANGED <<prev, sol, cfg, y, steps, last_t, pbar, args, locals>>

SigmaInline ==
    /\ op = "idle"
    /\ op' = "sigma_inline"
    /\ out' = SigmaOutcome(sigma_inline(args.Peclet, args.W_data,
                                        args.Peclet_min, args.Peclet_max))
    /\ UNCHANGED <<prev, sol, cfg, y, steps, last_t, pbar, args, locals>>

\* solve_ivp's test for an event between two steps (direction 0): the value
\* went from <= 0 to >= 0 or from >= 0 to <= 0
Crossed(g_old, g_new) ==
    \/ RLeV(g_old, Zero) /\ RLeV(Zero, g_new)
    \/ RLeV(Zero, g_old) /\ RLeV(g_new, Zero)

\* solve_ivp after a step to yn, step number n: an error raised by an event
\* function ends the integration; otherwise every event that crossed is
\* recorded, and a terminal one among them stops the integration
AfterStep(s, yv, yn, n) ==
    LET g_old == [e \in EventSet |-> event_value(e, yv)]
        g_new == [e \in EventSet |-> event_value(e, yn)]
        active == {e \in EventSet : Crossed(g_old[e], g_new[e])}
    IN  IF \E e \in EventSet : g_new[e] = Err
        THEN [s EXCEPT !.status = "raised"]
        ELSE [status |-> IF \E e \in active : terminal(e)
                         THEN "terminated" ELSE "running",
              t_events |-> [e \in EventSet |->
                               IF e \in active THEN Append(s.t_events[e], n)
                               ELSE s.t_events[e]]]

\* one step of solve_ivp with its handling of the events; the evaluations
\* of the right-hand side that the step makes are not followed here
IvpStep(k, v) ==
    /\ sol.status = "running"
    /\ op = "idle"
    /\ steps < MaxSolveSteps
    /\ v # y[k]
    /\ y' = [y EXCEPT ![k] = v]
    /\ steps' = steps + 1
    /\ sol' = AfterStep(sol, y, [y EXCEPT ![k] = v], steps + 1)
    /\ UNCHANGED <<prev, cfg, last_t, pbar, args, op, out, locals>>

Step ==
    \E k \in 1..(no_fields * no_depths) :
        \E v \in EventValues[FieldOf(k) + 1] : IvpStep(k, v)

\* the solver reaches the end of the time span
Finish ==
    /\ sol.status = "running"
    /\ op = "idle"
    /\ sol' = [sol EXCEPT !.status = "finished"]
    /\ UNCHANGED <<prev, cfg, y, steps, last_t, pbar, args, op, out, locals>>

\* the solver takes the value that was returned
Resume ==
    /\ op # "idle"
    /\ op' = "idle"
    /\ out' = NoResult
    /\ locals' = <<>>
    /\ prev' = IF op \in {"fun", "fun_numba"}
               THEN [y |-> y, status |-> out.status, rate |-> out.rate]
               ELSE prev
    /\ UNCHANGED <<sol, cfg, y, steps, last_t, pbar, args>>

StepTo(values, bound) ==
    /\ steps < bound
    /\ \E k \in 1..(no_fields * no_depths) :
          \E v \in values[FieldOf(k) + 1] : SolverStep(k, v)

\* the loop of pde_rhs, pass by pass.  A pass runs in three parts, in the
\* order of its statements; the passes run in any order and interleaved.
\* locals holds the work arrays, out the array rate and how far each pass is.

\* the names of the values a pass assigns
WorkNames ==
    {"F", "U", "CA_grad", "CC_grad", "W", "denominator", "one_minus_Phi", "dPhi",
     "Peclet_cCa", "Peclet_cCO3", "Peclet_Phi",
     "sigma_cCa", "sigma_cCO3", "sigma_Phi",
     "cCa_grad", "cCO3_grad", "Phi_grad",
     "two_factors_upp_lim", "two_factors_low_lim", "three_factors_upp_lim",
     "three_factors_low_lim", "coA", "coC", "dW_dx"}

\* an element of the work arrays as np.empty leaves it
WorkEmpty == [n \in WorkNames |-> Uninit]

\* the index below i
loop_index_below(i) == IF i > 1 THEN i - 1 ELSE i

\* the index at which pass i reads and writes the work arrays
loop_index(i) == i

\* pde_rhs is entered: rate and the work arrays are allocated
LoopStart ==
    /\ op = "idle"
    /\ op' = "pde_rhs"
    /\ out' = [status |-> "loop",
               rate |-> [k \in 1..(5 * no_depths) |-> Uninit],
               writes |-> [k \in 1..(5 * no_depths) |-> 0],
               part |-> [i \in Cells |-> 0]]
    /\ locals' = [i \in Cells |-> WorkEmpty]
    /\ UNCHANGED <<prev, sol, cfg, y, steps, last_t, pbar, args>>

\* pass i, from F[i] to dPhi[i]
LoopLocal(i) ==
    /\ op = "pde_rhs"
    /\ out.status = "loop"
    /\ out.part[i] = 0
    /\ locals' = Let(fun_numba_arrays(y, BCs), LAMBDA a :
                     [locals EXCEPT ![loop_index(i)] = pde_rhs_local(cfg, a, i) @@ @])
    /\ out' = [out EXCEPT !.part[i] = 1]
    /\ UNCHANGED <<prev, sol, cfg, y, steps, last_t, pbar, args, op>>

\* pass i, from Peclet_cCa to Phi_grad[i]
LoopUpwind(i) ==
    /\ op = "pde_rhs"
    /\ out.status = "loop"
    /\ out.part[i] = 1
    /\ locals' = Let(<<fun_numba_arrays(y, BCs), locals[loop_index(i)]>>, LAMBDA p :
                     [locals EXCEPT ![loop_index(i)] =
                          pde_rhs_upwind(cfg, p[1], p[2], i) @@ @])
    /\ out' = [out EXCEPT !.part[i] = 2]
    /\ UNCHANGED <<prev, sol, cfg, y, steps, last_t, pbar, args, op>>

\* the five assignments to rate of pass i, from the values r
LoopStore(before, r, i) ==
    Store(Store(Store(Store(Store(before,
        rate_index(0, i), r.dCA_dt),
        rate_index(1, i), r.dCC_dt),
        rate_index(2, i), r.dcCa_dt),
        rate_index(3, i), r.dcCO3_dt),
        rate_index(4, i), r.dPhi_dt)

\* pass i, from common_helper1[i] to rate[4 * no_depths + i]
LoopRates(i) ==
    LET r == Let(<<fun_numba_arrays(y, BCs), locals[loop_index(i)]>>, LAMBDA p :
                 pde_rhs_rates(cfg, p[1], p[2], p[2], i))
    IN  /\ op = "pde_rhs"
        /\ out.status = "loop"
        /\ out.part[i] = 2
        /\ locals' = [locals EXCEPT ![loop_index(i)] = r @@ @]
        /\ out' = [LoopStore(out, r, i) EXCEPT !.part[i] = 3]
        /\ UNCHANGED <<prev, sol, cfg, y, steps, last_t, pbar, args, op>>

\* return rate, after the last pass
LoopReturn ==
    /\ op = "pde_rhs"
    /\ out.status = "loop"
    /\ \A i \in Cells : out.part[i] = 3
    /\ out' = Outcome(out.rate) @@ [writes |-> out.writes]
    /\ UNCHANGED <<prev, sol, cfg, y, steps, last_t, pbar, args, op, locals>>

\* the right-hand side under the solver
Next ==
    \/ \E t \in Times : Fun(t)
    \/ \E t \in Times : FunNumba(t)
    \/ \E t \in Times : Jac(t)
    \/ StepTo(RhsValues, MaxSteps)
    \/ Resume

Spec == Init /\ [][Next]_vars

\* the event functions and the sparsity pattern under the solver
NextEvents ==
    \/ Zeros \/ ZerosCA \/ ZerosCC \/ OnesCAPlusCC \/ OnesPhi \/ ZerosU \/ ZerosW
    \/ JacobianSparsity
    \/ StepTo(EventValues, MaxEventSteps)
    \/ Resume

SpecEvents == InitEvents /\ [][NextEvents]_vars

\* solve_ivp with the events of ScenarioA
NextSolve ==
    \/ Step
    \/ Finish

SpecSolve == InitEvents /\ [][NextSolve]_vars

\* the loop of pde_rhs with its passes in any order
NextLoop ==
    \/ StepTo(RhsValues, MaxSteps)
    \/ LoopStart
    \/ \E i \in Cells : LoopLocal(i)
    \/ \E i \in Cells : LoopUpwind(i)
    \/ \E i \in Cells : LoopRates(i)
    \/ LoopReturn

SpecLoop == Init /\ [][NextLoop]_vars

\* the calls of fun, fun_numba and jac with the progress arguments a caller
\* may pass: the start of the time span at or before the first time
ProgressArgs == [progress_dt : {1, 2}, t0 : {-1, 0}]

InitProgress ==
    /\ cfg = "A"
    /\ y \in EventInitial
    /\ steps = 0
    /\ last_t = 0
    /\ pbar = 0
    /\ args \in ProgressArgs
    /\ op = "idle"
    /\ out = NoResult
    /\ locals = <<>>
    /\ sol = SolveStart
    /\ prev = NoCall

NextProgress ==
    \/ \E t \in Times : Fun(t)
    \/ \E t \in Times : FunNumba(t)
    \/ \E t \in Times : Jac(t)
    \/ Zeros \/ ZerosCA \/ ZerosCC \/ OnesCAPlusCC \/ OnesPhi \/ ZerosU \/ ZerosW
    \/ JacobianSparsity
    \/ Resume

SpecProgress == InitProgress /\ [][NextProgress]_vars

\* the sigma code called on its own
NextSigma ==
    \/ CalculateSigma
    \/ SigmaInline
    \/ Resume

SpecSigma == InitSigma /\ [][NextSigma]_vars

----------------------------------------------------------------------------
(* Properties.                                                             *)

\* the local values that both variants of the right-hand side compute
SharedLocals ==
    {"two_factors_upp_lim", "two_factors_low_lim", "three_factors_upp_lim",
     "three_factors_low_lim", "coA", "coC", "F", "U", "W", "dPhi", "dW_dx",
     "CA_grad", "CC_grad", "denominator",
     "Peclet_cCa", "Peclet_cCO3", "Peclet_Phi",
     "sigma_cCa", "sigma_cCO3", "sigma_Phi",
     "branch_cCa", "branch_cCO3", "branch_Phi",
     "cCa_grad", "cCO3_grad", "Phi_grad",
     "dCA_dt", "dCC_dt", "dcCa_dt", "dcCO3_dt", "dPhi_dt"}

\* the outcome r of fun_numba and its local values ls agree with those of
\* fun, f
SameAsFun(r, ls, f) ==
    /\ r.status = f.res.status
    /\ f.res.status = "returned" =>
          /\ DOMAIN r.rate = DOMAIN f.res.rate
          /\ \A k \in DOMAIN r.rate : r.rate[k] = f.res.rate[k]
          /\ \A i \in Cells : \A n \in SharedLocals : ls[i][n] = f.cells[i][n]

C2_SigmaGuardedAndBounded ==
    op \in {"calculate_sigma", "sigma_inline"} =>
        /\ RLt(RAbs(args.Peclet), args.Peclet_min) =>
              out.value = Zero /\ out.branch = "centred"
        /\ args.Peclet # Zero =>
              /\ IsNum(out.value)
              /\ RLe(<<-1, 1>>, out.value)
              /\ RLe(out.value, One)

\* calculate_sigma was called with a Peclet number of 0
C2_Witness ==
    /\ op = "calculate_sigma"
    /\ args.Peclet = Zero
    /\ out.value = Zero

\* the names, in the local values of a cell, of what belongs to a field with
\* a weighted gradient
WeightedFields ==
    {[grad |-> "cCa_grad", forw |-> "cCa_grad_forw", back |-> "cCa_grad_back",
      sigma |-> "sigma_cCa", branch |-> "branch_cCa"],
     [grad |-> "cCO3_grad", forw |-> "cCO3_grad_forw", back |-> "cCO3_grad_back",
      sigma |-> "sigma_cCO3", branch |-> "branch_cCO3"],
     [grad |-> "Phi_grad", forw |-> "Phi_grad_forw", back |-> "Phi_grad_back",
      sigma |-> "sigma_Phi", branch |-> "branch_Phi"]}

\* the gradient in the local values l of a cell, for the field named by q,
\* is the blend of the two differences
Blended(l, q) ==
    /\ RMul(Two, l[q.grad]) =
          RAdd(RAdd(l[q.forw], l[q.back]), RMul(l[q.sigma], RSub(l[q.back], l[q.forw])))
    /\ l[q.sigma] = Zero => l[q.grad] = RDiv(RAdd(l[q.forw], l[q.back]), Two)
    /\ l[q.branch] = "sign" =>
          /\ RLe(Zero, l.W) => l[q.grad] = l[q.back]
          /\ RLt(l.W, Zero) => l[q.grad] = l[q.forw]

\* C3: in every vector that fun or fun_numba returns, the gradient of cCa,
\* cCO3 and Phi at each cell is 0.5*((1-sigma)*forward + (1+sigma)*backward):
\* the mean of the two differences when sigma = 0 and, where sigma is the
\* sign of W, the backward difference if W >= 0 and the forward one if W < 0.
C3_BlendedGradient ==
    (op \in {"fun", "fun_numba"} /\ out.status = "returned") =>
        \A i \in Cells : \A q \in WeightedFields : Blended(locals[i], q)

\* fun returned a vector for which the porosity took the sign branch at two
\* cells, with W < 0 at one and W > 0 at the other, and the two differences
\* of the porosity unequal at both
C3_Witness ==
    /\ op = "fun"
    /\ out.status = "returned"
    /\ \E i, j \in Cells :
          /\ locals[i].branch_Phi = "sign" /\ locals[j].branch_Phi = "sign"
          /\ RLt(locals[i].W, Zero) /\ RLt(Zero, locals[j].W)
          /\ locals[i].Phi_grad_forw # locals[i].Phi_grad_back
          /\ locals[j].Phi_grad_forw # locals[j].Phi_grad_back
          /\ locals[i].Phi_grad = locals[i].Phi_grad_forw
          /\ locals[j].Phi_grad = locals[j].Phi_grad_back

\* the boundary conditions with other bottom values for CA and CC
BCsWithBottom(vA, vC) ==
    <<<<BCValue(CA0), BCValue(vA)>>, <<BCValue(CC0), BCValue(vC)>>,
      bc_cCa, bc_cCO3, bc_Phi>>

\* bottom values of CA and CC other than those of the construction
OtherBottoms == {<<Zero, Sentinel>>, <<Sentinel, <<-7, 2>>>>}

\* an evaluation f under other boundary conditions gave the outcome r and
\* the solid gradients of the local values ls
SameSolids(r, ls, f) ==
    /\ f.res.status = r.status
    /\ f.res.rate = r.rate
    /\ \A i \in Cells :
          /\ f.cells[i].CA_grad = ls[i].CA_grad
          /\ f.cells[i].CC_grad = ls[i].CC_grad

FieldNames == <<"CA", "CC", "cCa", "cCO3", "Phi">>
RateNames == <<"dCA_dt", "dCC_dt", "dcCa_dt", "dcCO3_dt", "dPhi_dt">>

\* the five arrays that the local values ls hold under the given names
ArraysOf(ls, names) ==
    [f \in 1..no_fields |-> [i \in Cells |-> ls[i][names[f]]]]

\* the zero-based indices of a slice
SliceIndices(sl) == sl.start..(sl.stop - 1)

\* flattening the arrays fs gives flat, and unpacking flat gives fs back
RoundTrip(fs, flat) ==
    /\ Ravel(fs) = flat
    /\ \A f \in Fields : Slice(Ravel(fs), slices_for_all_fields[f]) = fs[f + 1]

\* C5: the five field arrays that fun unpacks from y flatten to y and unpack
\* to themselves again, and so do the five derivative arrays that fun
\* flattens into its result; the five slices are pairwise disjoint and
\* cover the 5N indices.
C5_LayoutRoundTrip ==
    /\ \A f, h \in Fields :
          f # h => SliceIndices(slices_for_all_fields[f])
                      \cap SliceIndices(slices_for_all_fields[h]) = {}
    /\ UNION {SliceIndices(slices_for_all_fields[f]) : f \in Fields}
          = 0..(no_fields * no_depths - 1)
    /\ op \in {"idle", "fun"} =>
          Ravel([f \in 1..no_fields |-> Slice(y, slices_for_all_fields[f - 1])]) = y
    /\ op = "fun" => RoundTrip(ArraysOf(locals, FieldNames), y)
    /\ (op = "fun" /\ out.status = "returned") =>
          RoundTrip(ArraysOf(locals, RateNames), out.rate)

\* fun returned a vector whose five derivative arrays differ from each other,
\* for a y whose five field arrays are not all the same
C5_Witness ==
    /\ op = "fun"
    /\ out.status = "returned"
    /\ Cardinality({Slice(out.rate, slices_for_all_fields[f]) : f \in Fields})
          = no_fields
    /\ Cardinality({Slice(y, slices_for_all_fields[f]) : f \in Fields}) >= 4

\* C6: a vector that fun or fun_numba returns has the 5N entries of y, and
\* the entry of field f (0..4 for CA, CC, cCa, cCO3, Phi) at cell i is the
\* derivative of that field at that cell (entry f*N + i, cells counted from
\* 1 as the entries are); pde_rhs has assigned each entry of rate exactly
\* once, so none is left as np.empty made it.
C6_OutputLayout ==
    (op \in {"fun", "fun_numba"} /\ out.status = "returned") =>
        /\ DOMAIN out.rate = 1..(no_fields * no_depths)
        /\ DOMAIN out.rate = DOMAIN y
        /\ \A f \in Fields : \A i \in Cells :
              out.rate[f * no_depths + i] = locals[i][RateNames[f + 1]]
        /\ op = "fun_numba" =>
              \A k \in DOMAIN out.rate :
                  out.writes[k] = 1 /\ out.rate[k] # Uninit /\ IsNum(out.rate[k])

\* fun_numba returned a vector in which the derivatives of one field differ
\* between the cells
C6_Witness ==
    /\ op = "fun_numba"
    /\ out.status = "returned"
    /\ \A k \in DOMAIN out.rate : out.writes[k] = 1
    /\ \E f \in Fields : out.rate[f * no_depths + 1] # out.rate[f * no_depths + 2]
    /\ Cardinality({out.rate[k] : k \in DOMAIN out.rate}) >= no_fields

\* block (i, j) of the pattern is there: every block but those of the Phi
\* row in the CA and the CC column
PresentBlock(i, j) == ~(i = 4 /\ j \in {0, 1})

\* the field blocks with an entry in the pattern m
BlocksOf(m) ==
    {blk \in Fields \X Fields :
        \E r, c \in 0..(no_depths - 1) :
            m[<<blk[1] * no_depths + r, blk[2] * no_depths + c>>] > 0}

\* C7: jacobian_sparsity returns a 5N x 5N matrix, the same for every state
\* vector, with a one, added once, at (i*N + k, j*N + k) for every cell k
\* and every block (i, j) other than (Phi, CA) and (Phi, CC), and nothing
\* anywhere else: 23 blocks, each of them diagonal.
C7_SparsityPattern ==
    op = "jacobian_sparsity" =>
        /\ DOMAIN out.value =
              (0..(5 * no_depths - 1)) \X (0..(5 * no_depths - 1))
        /\ \A r, c \in 0..(5 * no_depths - 1) :
              out.value[<<r, c>>] =
                  IF r % no_depths = c % no_depths
                     /\ PresentBlock(r \div no_depths, c \div no_depths)
                  THEN 1 ELSE 0
        /\ Cardinality(BlocksOf(out.value)) = 23

\* jacobian_sparsity returned after the solver had moved the state vector,
\* with the Phi row empty in the CA and CC columns and filled in the others
C7_Witness ==
    /\ op = "jacobian_sparsity"
    /\ steps > 0
    /\ out.value[<<4 * no_depths, 0>>] = 0
    /\ out.value[<<4 * no_depths, no_depths>>] = 0
    /\ out.value[<<4 * no_depths, 2 * no_depths>>] = 1
    /\ out.value[<<0, 4 * no_depths>>] = 1

\* the values a solver step can give entry k of the CA or the CC slice
SolidValues(k) == RhsValues[FieldOf(k) + 1]

\* the Phi entries of the derivative vector f.res are those of r
SamePhiRate(r, f) ==
    f.res.status = "returned" => Slice(f.res.rate, Phi_sl) = Slice(r.rate, Phi_sl)

\* C8: a state vector that differs from y in one entry of the CA or the CC
\* slice only gives the same dPhi/dt at every cell, in fun and in pde_rhs.
C8_PhiRateIgnoresSolids ==
    /\ (op = "fun" /\ out.status = "returned") =>
          \A k \in 1..(2 * no_depths) : \A v \in SolidValues(k) :
              Let(fun_eval(cfg, [y EXCEPT ![k] = v], BCs),
                  LAMBDA f : SamePhiRate(out, f))
    /\ (op = "fun_numba" /\ out.status = "returned") =>
          \A k \in 1..(2 * no_depths) : \A v \in SolidValues(k) :
              Let(fun_numba_eval(cfg, [y EXCEPT ![k] = v], BCs),
                  LAMBDA f : SamePhiRate(out, f))

\* v is the least of the entries of yv at the positions ks
LeastOf(v, yv, ks) ==
    /\ \E k \in ks : yv[k] = v
    /\ \A k \in ks : RLe(v, yv[k])

\* v is the greatest of the values in vs
GreatestOf(v, vs) ==
    /\ v \in vs
    /\ \A u \in vs : RLe(u, v)

AllPositions == 1..(no_fields * no_depths)
CAPositions == 1..no_depths
CCPositions == (no_depths + 1)..(2 * no_depths)

\* yv has a negative entry, and all its negative entries are in the CA slice
NegativeInCAOnly(yv) ==
    /\ \E k \in CAPositions : RLt(yv[k], Zero)
    /\ \A k \in AllPositions \ CAPositions : RLe(Zero, yv[k])

\* C9: zeros returns the least of the 5N entries of y, zeros_CA the least
\* entry of the CA slice and zeros_CC the least entry of the CC slice, so
\* that zeros(y) <= zeros_CA(y) and zeros(y) <= zeros_CC(y); when the only
\* negative entries of y are in the CA slice, zeros < 0, zeros_CA < 0 and
\* zeros_CC >= 0.
C9_EventMinima ==
    /\ op = "zeros" =>
          /\ LeastOf(out.value, y, AllPositions)
          /\ NegativeInCAOnly(y) => RLt(out.value, Zero)
    /\ op = "zeros_CA" =>
          /\ LeastOf(out.value, y, CAPositions)
          /\ RLe(zeros(y), out.value)
          /\ NegativeInCAOnly(y) => RLt(out.value, Zero)
    /\ op = "zeros_CC" =>
          /\ LeastOf(out.value, y, CCPositions)
          /\ RLe(zeros(y), out.value)
          /\ NegativeInCAOnly(y) => RLe(Zero, out.value)

\* zeros_CA returned a negative value for a y whose one negative entry is
\* in the CA slice, where the least entry of the CC slice is another value
C9_Witness ==
    /\ op = "zeros_CA"
    /\ NegativeInCAOnly(y)
    /\ Cardinality({k \in AllPositions : RLt(y[k], Zero)}) = 1
    /\ RLt(out.value, Zero)
    /\ RLt(Zero, zeros_CC(y))

\* CA[i] + CC[i] - 1 and Phi[i] - 1 for the cells i
SolidExcess(yv) == {RSub(RAdd(yv[i], yv[no_depths + i]), One) : i \in Cells}
PhiExcess(yv) == {RSub(yv[4 * no_depths + i], One) : i \in Cells}

\* C10: ones_CA_plus_CC returns the greatest of CA[i] + CC[i] - 1 over the
\* cells i, which is > 0 exactly when CA[i] + CC[i] > 1 at some cell i;
\* ones_Phi returns the greatest of Phi[i] - 1, which is > 0 exactly when
\* Phi[i] > 1 at some cell i.
C10_EventMaxima ==
    /\ op = "ones_CA_plus_CC" =>
          /\ GreatestOf(out.value, SolidExcess(y))
          /\ RLt(Zero, out.value) <=>
                \E i \in Cells : RLt(One, RAdd(y[i], y[no_depths + i]))
    /\ op = "ones_Phi" =>
          /\ GreatestOf(out.value, PhiExcess(y))
          /\ RLt(Zero, out.value) <=>
                \E i \in Cells : RLt(One, y[4 * no_depths + i])

\* ones_CA_plus_CC returned a value that is not above 0 for a y in which the
\* greatest CA and the greatest CC, of different cells, add up to more than 1
C10_Witness ==
    /\ op = "ones_CA_plus_CC"
    /\ ~RLt(Zero, out.value)
    /\ RLt(One, RAdd(amax(Slice(y, CA_sl)), amax(Slice(y, CC_sl))))

\* the local values named n that fun and pde_rhs compute for yv, cell by cell
FunLocal(c, yv, n) ==
    [i \in Cells |->
        Let(fun_fields(yv, BCs, i), LAMBDA a : fun_local(c, a, i)[n])]
PdeRhsLocal(c, yv, n) ==
    Let(fun_numba_arrays(yv, BCs), LAMBDA a :
        [i \in Cells |-> pde_rhs_local(c, a, i)[n]])

\* r is what an event function returns that takes the least (greatest) of
\* the values vs: that value, or the error that one of the values raised
EventOfLeast(r, vs) ==
    IF \E i \in Cells : ~IsNum(vs[i]) THEN r.status = "raised"
    ELSE r.status = "returned" /\ LeastOf(r.value, vs, Cells)
EventOfGreatest(r, vs) ==
    IF \E i \in Cells : ~IsNum(vs[i]) THEN r.status = "raised"
    ELSE r.status = "returned" /\ GreatestOf(r.value, {vs[i] : i \in Cells})

\* C11: zeros_U returns the least over the cells of the U, and zeros_W the
\* greatest over the cells of the W, that fun and pde_rhs compute from the
\* same Phi slice.
C11_EventVelocities ==
    /\ op = "zeros_U" =>
          /\ PdeRhsLocal(cfg, y, "U") = FunLocal(cfg, y, "U")
          /\ EventOfLeast(out, FunLocal(cfg, y, "U"))
    /\ op = "zeros_W" =>
          /\ PdeRhsLocal(cfg, y, "W") = FunLocal(cfg, y, "W")
          /\ EventOfGreatest(out, FunLocal(cfg, y, "W"))

\* zeros_U returned the U of one cell where the U of another cell is greater
C11_Witness ==
    /\ op = "zeros_U"
    /\ out.status = "returned"
    /\ \E i \in Cells : RLt(out.value, FunLocal(cfg, y, "U")[i])

PhiPositions == (4 * no_depths + 1)..(5 * no_depths)

\* yv breaks the invariant of the fields: CA and CC in [0, 1], CA + CC <= 1
\* at every cell, Phi in (0, 1)
FieldInvariantBroken(yv) ==
    \/ \E k \in CAPositions \cup CCPositions : RLt(yv[k], Zero) \/ RLt(One, yv[k])
    \/ \E i \in Cells : RLt(One, RAdd(yv[i], yv[no_depths + i]))
    \/ \E k \in PhiPositions : RLe(yv[k], Zero) \/ RLe(One, yv[k])

\* one of the five event functions of the fields signals at yv
Signalled(yv) ==
    \/ RLe(zeros(yv), Zero)
    \/ RLe(zeros_CA(yv), Zero)
    \/ RLe(zeros_CC(yv), Zero)
    \/ RLe(Zero, ones_CA_plus_CC(yv))
    \/ RLe(Zero, ones_Phi(yv))

\* C12: whenever the state vector has a CA or CC entry outside [0, 1], a
\* cell with CA + CC > 1 or a Phi entry outside (0, 1), one of zeros,
\* zeros_CA, zeros_CC is <= 0 or one of ones_CA_plus_CC, ones_Phi is >= 0,
\* and the event function that was called returned that value.
C12_BrokenInvariantSignalled ==
    /\ DOMAIN y = AllPositions /\ FieldInvariantBroken(y) => Signalled(y)
    /\ op \in {"zeros", "zeros_CA", "zeros_CC", "ones_CA_plus_CC", "ones_Phi"} =>
          out.status = "returned" /\ out.value = event_value(op, y)

\* ones_Phi returned 0 for a y whose one defect is a porosity of exactly 1,
\* which no other event function signals
C12_Witness ==
    /\ op = "ones_Phi"
    /\ out.value = Zero
    /\ FieldInvariantBroken(y)
    /\ RLt(Zero, zeros(y))
    /\ RLt(ones_CA_plus_CC(y), Zero)

\* a step of the solver records every event whose value crossed zero in it,
\* and the solver is running after it unless an event function raised
CrossingsRecorded ==
    steps' = steps + 1 =>
        \/ sol'.status = "raised"
        \/ /\ sol'.status = "running"
           /\ \A e \in EventSet :
                 IF Crossed(event_value(e, y), event_value(e, y'))
                 THEN sol'.t_events[e] = Append(sol.t_events[e], steps')
                 ELSE sol'.t_events[e] = sol.t_events[e]

\* C13: none of the seven events is terminal; a crossing of any of them is
\* recorded in the step in which it happens, and no crossing stops the
\* integration: solve_ivp never ends with the status of a terminal event.
C13_EventsNeverStop ==
    /\ []((\A e \in EventSet : ~terminal(e)) /\ sol.status # "terminated")
    /\ [][CrossingsRecorded]_vars

\* the integration reached the end of the time span with a crossing on
\* record
C13_Witness ==
    /\ sol.status = "finished"
    /\ \E e \in EventSet : sol.t_events[e] # <<>>

\* a negative concentration or a porosity above one at some entry of yv
Invalid(yv) ==
    \/ \E k \in AllPositions \ PhiPositions : RLt(yv[k], Zero)
    \/ \E k \in PhiPositions : RLt(One, yv[k])

----------------------------------------------------------------------------
(* C15: excursions out of the physical range and the errors of the         *)
(* right-hand side.                                                        *)

\* fun or fun_numba was called on y
RhsCalled == op \in {"fun", "fun_numba"}

\* the porosity is positive at every cell: what is wrong with y, if
\* anything, is a negative CA, CC or ion entry, CA + CC > 1 or Phi >= 1
\* (a CA or CC above one with no negative entry makes CA + CC > 1)
OnlyListedDefects(yv) == \A k \in PhiPositions : RLt(Zero, yv[k])

\* C15 as stated: on every state whose only defects are negative CA, CC or
\* ion entries, CA + CC > 1 or a porosity of one or more, fun and fun_numba
\* return a derivative vector and raise no error.
C15_ExcursionsNeverRaise ==
    (RhsCalled /\ OnlyListedDefects(y)) => out.status = "returned"


----------------------------------------------------------------------------
(* C16: the progress bookkeeping of fun, fun_numba and jac.                *)

\* C16 as stated: across any sequence of calls of fun, fun_numba and jac,
\* at whatever times, last_t never decreases.
C16_LastTNeverDecreases == [][last_t' >= last_t]_vars


----------------------------------------------------------------------------
(* C17: the result of fun and fun_numba and the progress bookkeeping.      *)

\* the solver took a result of fun or fun_numba on this y before
TakenBefore == prev.status # "none" /\ prev.y = y

----------------------------------------------------------------------------
(* C18: the reaction terms where the solution holds no ions.               *)

\* cCa = cCO3 = 0 at every cell of yv
IonsZero(yv) == \A k \in (2 * no_depths + 1)..(4 * no_depths) : yv[k] = Zero

\* cell i lies between ShallowLimit and DeepLimit
InBand(i) == RLt(ShallowLimit, Depth(i)) /\ RLt(Depth(i), DeepLimit)

\* at cell i CA and CC are advected and nothing else
PurelyAdvected(ls, i) ==
    /\ ls[i].dCA_dt = RMul(RNeg(ls[i].U), ls[i].CA_grad)
    /\ ls[i].dCC_dt = RMul(RNeg(ls[i].U), ls[i].CC_grad)

----------------------------------------------------------------------------
(* C19: the two clamped copies of two_factors and three_factors.           *)

\* two_factors = cCa * cCO3 at cell i of yv
TwoFactors(yv, i) == RMul(yv[2 * no_depths + i], yv[3 * no_depths + i])

\* three_factors = two_factors * KRat at cell i of yv
ThreeFactors(yv, i) == RMul(TwoFactors(yv, i), KRat)

\* upp and low are the two clamped copies of x: upp = min(x, 1) and
\* low = max(x, 1); the bases 1 - upp and low - 1 are not negative, at most
\* one of them is nonzero and both are zero exactly when x = 1
ClampedCopies(x, upp, low) ==
    /\ upp = IF RLe(x, One) THEN x ELSE One
    /\ low = IF RLe(One, x) THEN x ELSE One
    /\ RLe(Zero, RSub(One, upp))
    /\ RLe(Zero, RSub(low, One))
    /\ RSub(One, upp) = Zero \/ RSub(low, One) = Zero
    /\ (RSub(One, upp) = Zero /\ RSub(low, One) = Zero) <=> x = One

\* C19: at every cell, in fun and in pde_rhs, the upper-limited copy of
\* two_factors and of three_factors is min(x, 1) and the lower-limited copy
\* is max(x, 1); so the bases (1 - upper copy) and (lower copy - 1) of the
\* power laws are >= 0, at most one of the two is nonzero, and both are
\* zero exactly when x = 1.
C19_TwoSidedClamp ==
    RhsCalled =>
        \A i \in Cells :
            /\ ClampedCopies(TwoFactors(y, i), locals[i].two_factors_upp_lim,
                             locals[i].two_factors_low_lim)
            /\ ClampedCopies(ThreeFactors(y, i), locals[i].three_factors_upp_lim,
                             locals[i].three_factors_low_lim)

\* fun_numba was called on a state with two_factors = 1 at one cell, where
\* both bases are zero, and three_factors > 1 at another, where the base of
\* the upper copy is zero and that of the lower copy is not; at the first
\* cell three_factors < 1
C19_Witness ==
    /\ op = "fun_numba"
    /\ \E i \in Cells :
          /\ TwoFactors(y, i) = One
          /\ locals[i].two_factors_upp_lim = One
          /\ locals[i].two_factors_low_lim = One
          /\ RLt(locals[i].three_factors_upp_lim, One)
          /\ locals[i].three_factors_low_lim = One
    /\ \E i \in Cells :
          /\ RLt(One, locals[i].three_factors_low_lim)
          /\ locals[i].three_factors_upp_lim = One


----------------------------------------------------------------------------
(* C20: the masks and the two terms of coA.                                *)

\* the term of coA for three_factors < 1 (undersaturation: dissolution)
DissolutionTerm(ls, i) == RPow(RSub(One, ls[i].three_factors_upp_lim), m2)

\* the term of coA for three_factors > 1 (supersaturation: precipitation)
PrecipitationTerm(ls, i) ==
    RMul(nu1, RPow(RSub(ls[i].three_factors_low_lim, One), m1))

\* C20 as stated: at a cell where not_too_shallow * not_too_deep = 0 the
\* precipitation term of aragonite (three_factors > 1) contributes nothing
\* to coA: coA is there what the other term alone makes it.
C20_MasksGatePrecipitation ==
    RhsCalled =>
        \A i \in Cells :
            RMul(not_too_shallow[i], not_too_deep[i]) = Zero =>
                locals[i].coA =
                    RMul(y[i], RMul(DissolutionTerm(locals, i),
                                    RMul(not_too_deep[i], not_too_shallow[i])))

\* C20, amended: the masks mark the band where the dissolution term of
\* aragonite (three_factors < 1) applies: outside the band that term
\* contributes nothing to coA, inside it contributes in full; the
\* precipitation term (three_factors > 1) is subtracted at every cell,
\* inside the band and outside.
C20_MasksGateDissolution ==
    RhsCalled =>
        \A i \in Cells :
            locals[i].coA =
                RMul(y[i], RSub(IF InBand(i) THEN DissolutionTerm(locals, i)
                                ELSE Zero,
                                PrecipitationTerm(locals, i)))

\* fun was called on a state with aragonite at every cell: at a cell outside
\* the band the solution is undersaturated and coA is zero; at a cell
\* inside the band it is supersaturated and coA is the precipitation term
C20_Witness ==
    /\ op = "fun"
    /\ \E i \in Cells :
          /\ ~InBand(i)
          /\ y[i] # Zero
          /\ DissolutionTerm(locals, i) # Zero
          /\ locals[i].coA = Zero
    /\ \E i \in Cells :
          /\ InBand(i)
          /\ y[i] # Zero
          /\ PrecipitationTerm(locals, i) # Zero
          /\ locals[i].coA = RNeg(RMul(y[i], PrecipitationTerm(locals, i)))


----------------------------------------------------------------------------
(* C21: the passes of the loop of pde_rhs in any order.                    *)

\* the values assigned by the first, second and third part of a pass
PartNames ==
    <<{"F", "U", "CA_grad", "CC_grad", "W", "denominator", "one_minus_Phi", "dPhi"},
      {"Peclet_cCa", "Peclet_cCO3", "Peclet_Phi", "sigma_cCa", "sigma_cCO3",
       "sigma_Phi", "cCa_grad", "cCO3_grad", "Phi_grad"},
      {"two_factors_upp_lim", "two_factors_low_lim", "three_factors_upp_lim",
       "three_factors_low_lim", "coA", "coC", "dW_dx"}>>

\* the entries of rate that belong to cell i
RateEntries(i) == {rate_index(f, i) : f \in 0..(no_fields - 1)}

\* cell i of the work arrays ws and of rate in r, with pass i done up to
\* part n: what the parts done have assigned is what the loop run in the
\* order 1..N assigns (seq), nothing else of cell i has been written
PassAsInOrder(ws, r, seq, i, n) ==
    /\ \A k \in 1..3 : \A name \in PartNames[k] :
          ws[i][name] = IF k <= n THEN seq.cells[i][name] ELSE Uninit
    /\ \A k \in RateEntries(i) :
          /\ r.writes[k] = IF n = 3 THEN 1 ELSE 0
          /\ n < 3 => r.rate[k] = Uninit
    /\ n = 3 =>
          /\ r.rate[rate_index(0, i)] = seq.cells[i].dCA_dt
          /\ r.rate[rate_index(1, i)] = seq.cells[i].dCC_dt
          /\ r.rate[rate_index(2, i)] = seq.cells[i].dcCa_dt
          /\ r.rate[rate_index(3, i)] = seq.cells[i].dcCO3_dt
          /\ r.rate[rate_index(4, i)] = seq.cells[i].dPhi_dt

----------------------------------------------------------------------------
(* C23: the thresholds of the guard of sigma.                              *)

\* the branch for a Peclet number of magnitude p: the closed form from
\* 1e-2 to 1e2, both included
BranchOf(p) ==
    IF RLe(<<1, 100>>, p) /\ RLe(p, <<100, 1>>) THEN "closed"
    ELSE IF RLt(p, <<1, 100>>) THEN "centred"
    ELSE "sign"

\* C23: the thresholds are Peclet_min = 1e-2 and Peclet_max = 1 / Peclet_min
\* = 1e2 and both comparisons are strict: at |Pe| equal to Peclet_min or to
\* Peclet_max the closed form coth(Pe) - 1/Pe is taken; and for every
\* (Pe, W) calculate_sigma and the inline code of pde_rhs take the same one
\* of the three branches.
C23_StrictThresholds ==
    op \in {"calculate_sigma", "sigma_inline"} =>
        /\ args.Peclet_min = <<1, 100>>
        /\ args.Peclet_max = <<100, 1>>
        /\ out.branch = BranchOf(RAbs(args.Peclet))
        /\ sigma_cell(args.Peclet, args.W_data, args.Peclet_min,
                      args.Peclet_max).branch
             = sigma_inline(args.Peclet, args.W_data, args.Peclet_min,
                            args.Peclet_max).branch

\* the inline code was given a Peclet number of -Peclet_max and returned
\* the value of the closed form
C23_Witness ==
    /\ op = "sigma_inline"
    /\ args.Peclet = RNeg(Peclet_max)
    /\ out.status = "returned"
    /\ out.branch = "closed"
    /\ out.value # RSign(args.W_data)


----------------------------------------------------------------------------
(* C24: the progress reported and last_t.                                  *)

\* fun, fun_numba or jac has returned
BookkeepingDone == op \in {"fun", "fun_numba", "jac"}

\* C24 as stated: after any sequence of calls of fun, fun_numba and jac the
\* amounts passed to progress_proxy.update, summed and multiplied by
\* progress_dt, equal last_t - t0: last_t is set to t0 in the first call
\* only and no progress is reported twice.
C24_ProgressMatchesLastT ==
    BookkeepingDone => pbar * args.progress_dt = last_t - args.t0


----------------------------------------------------------------------------
(* C25: where the bookkeeping leaves last_t.                               *)

\* v lies between lo and hi, whichever of the two is the larger
Between(lo, v, hi) == (lo <= v /\ v <= hi) \/ (hi <= v /\ v <= lo)

\* a call at time t leaves last_t between the last_t in force before the
\* update (t0 in a call that finds last_t = 0) and t, less than progress_dt
\* away from t
LastTFollows(t) ==
    (Fun(t) \/ FunNumba(t) \/ Jac(t)) =>
        /\ Between(IF last_t = 0 THEN args.t0 ELSE last_t, last_t', t)
        /\ Abs(t - last_t') < args.progress_dt

\* C25 as stated: each call of fun, fun_numba or jac at time t leaves last_t
\* between the last_t in force before the update and t, with
\* |t - last_t| < progress_dt; so last_t never exceeds the times passed
\* (all of them <= MaxT here), and the progress reported in total never
\* exceeds (t_end - t0) / progress_dt, every call having t <= t_end = MaxT.
C25_LastTFollowsAndProgressBounded ==
    /\ [][\A t \in Times : LastTFollows(t)]_vars
    /\ [](BookkeepingDone =>
             /\ last_t <= MaxT
             /\ pbar * args.progress_dt <= MaxT - args.t0)


----------------------------------------------------------------------------
(* C26: what the event functions and jacobian_sparsity leave alone.        *)

\* the functions of the model that only read
ReadOnlyCalls == EventSet \cup {"jacobian_sparsity"}

\* the step is a call of a function that only reads
ReadOnlyCall == op = "idle" /\ op' \in ReadOnlyCalls

\* C26: the seven event functions and jacobian_sparsity only read: a call
\* leaves last_t and the progress bar as they are and changes neither the
\* state vector y nor the constants of the model; last_t and the progress
\* bar change in calls of fun, fun_numba and jac only.
C26_EventsReadOnly ==
    [][/\ ReadOnlyCall => UNCHANGED <<last_t, pbar, y, cfg, args>>
       /\ (last_t' # last_t \/ pbar' # pbar) => op' \in {"fun", "fun_numba", "jac"}]_vars

\* an event function has returned on a model whose earlier calls of fun,
\* fun_numba or jac moved last_t and the progress bar
C26_Witness ==
    /\ op = "zeros_U"
    /\ out.status = "returned"
    /\ last_t = 1
    /\ pbar = 2


----------------------------------------------------------------------------
(* C27 and C28: the reaction parts of dCA/dt and dCC/dt.                   *)

\* dCA_dt and dCC_dt at cell i without their advection terms -U * CA_grad
\* and -U * CC_grad
ReactionOfCA(ls, i) == RAdd(ls[i].dCA_dt, RMul(ls[i].U, ls[i].CA_grad))
ReactionOfCC(ls, i) == RAdd(ls[i].dCC_dt, RMul(ls[i].U, ls[i].CC_grad))

\* C27: reactions alone do not drive a solid fraction of zero below zero.
\* At a cell with CA = 0 the reaction part of dCA/dt,
\* -Da * ((1 - CA) * coA + lambda * CA * coC), is zero, and at a cell with
\* CC = 0 the reaction part of dCC/dt, Da * (lambda * (1 - CC) * coC +
\* CC * coA), is zero: coA is proportional to CA and coC to CC.
C27_NoReactionAtZeroSolid ==
    (RhsCalled /\ out.status = "returned") =>
        \A i \in Cells :
            /\ y[i] = Zero =>
                  locals[i].coA = Zero /\ ReactionOfCA(locals, i) = Zero
            /\ y[no_depths + i] = Zero =>
                  locals[i].coC = Zero /\ ReactionOfCC(locals, i) = Zero

\* fun has returned on a state with CA = 0 at a cell where calcite reacts
\* (coC is not zero) and CA is advected
C27_Witness ==
    /\ op = "fun"
    /\ out.status = "returned"
    /\ \E i \in Cells :
          /\ y[i] = Zero
          /\ y[no_depths + i] # Zero
          /\ locals[i].coC # Zero
          /\ locals[i].dCA_dt # Zero

\* C28: reactions keep a total solid fraction of one.  At every cell the
\* reaction parts of dCA/dt and dCC/dt add up to
\* Da * (1 - CA - CC) * (lambda * coC - coA), which is zero where
\* CA + CC = 1, whatever coA and coC are.
C28_ReactionsPreserveUnitSum ==
    (RhsCalled /\ out.status = "returned") =>
        \A i \in Cells :
            /\ RAdd(ReactionOfCA(locals, i), ReactionOfCC(locals, i))
                 = RMul(RMul(Da, RSub(RSub(One, y[i]), y[no_depths + i])),
                        RSub(RMul(lambda_, locals[i].coC), locals[i].coA))
            /\ RAdd(y[i], y[no_depths + i]) = One =>
                  RAdd(ReactionOfCA(locals, i), ReactionOfCC(locals, i)) = Zero

\* fun_numba has returned on a state with CA + CC = 1 at a cell where both
\* solids react
C28_Witness ==
    /\ op = "fun_numba"
    /\ out.status = "returned"
    /\ \E i \in Cells :
          /\ RAdd(y[i], y[no_depths + i]) = One
          /\ locals[i].coA # Zero
          /\ locals[i].coC # Zero
          /\ ReactionOfCA(locals, i) # Zero

====
